---------------------------- MODULE Spec2Model ----------------------------
(***************************************************************************)
(* Teensy MIDI to HID keyboard translator: the translation engine of       *)
(* src/src/main.cpp (profiles, pressed-key list, fast-press timers, the    *)
(* MIDI dispatcher, the polling loop and the keyboard report batcher).     *)
(***************************************************************************)
EXTENDS Integers, Sequences, FiniteSets, TLC

(***************************************************************************)
(* Program constants (include/MidiConfig.h).                               *)
(***************************************************************************)
MAX_MIDI_NOTES == 128
MAX_SIMULTANEOUS_KEYS == 6
MAX_PROFILES == 8
PROFILE_SWITCH_NOTE == 24

KEY_A == 4
KEY_G == 10
KEY_H == 11
KEY_1 == 30
KEY_0 == 39
KEY_ENTER == 40
KEY_ESC == 41
KEY_BACKSPACE == 42
KEY_TAB == 43
KEY_SPACE == 44
KEY_MINUS == 45
KEY_EQUAL == 46
KEY_LEFTBRACE == 47
KEY_RIGHTBRACE == 48
KEY_BACKSLASH == 49
KEY_COMMA == 54
KEY_DOT == 55
KEY_SLASH == 56

MODIFIERKEY_LEFTCTRL == 1
MODIFIERKEY_LEFTSHIFT == 2
MODIFIERKEY_LEFTALT == 4
MODIFIERKEY_LEFTMETA == 8
MODIFIERKEY_RIGHTCTRL == 16
MODIFIERKEY_RIGHTSHIFT == 32
MODIFIERKEY_RIGHTALT == 64
MODIFIERKEY_RIGHTMETA == 128

\* Number of MIDIDevice instances polled by loop() (midi1 .. midi4).
NUM_MIDI_DEVICES == 4
\* config.profileSwitchNote value that disables profile switching.
SWITCH_DISABLED == 255
\* Largest PRESS_DURATION value the loaders accept.
MAX_PRESS_DURATION == 1000

(***************************************************************************)
(* Bounds of the model.                                                    *)
(***************************************************************************)
\* The clock stops advancing once millis() has reached MaxClock.
MaxClock == 2
\* A long idle period takes the clock to WrapMargin ms before it wraps.
WrapMargin == 1

(***************************************************************************)
(* Arithmetic on the 8-bit `byte` type.                                    *)
(***************************************************************************)
Bit(x, i) == (x \div (2 ^ i)) % 2

\* a | b on bytes
BitOr(a, b) ==
    LET bit(i) == IF Bit(a, i) = 1 \/ Bit(b, i) = 1 THEN 2 ^ i ELSE 0
    IN  bit(0) + bit(1) + bit(2) + bit(3) + bit(4) + bit(5) + bit(6) + bit(7)

\* a & ~b on bytes
BitAndNot(a, b) ==
    LET bit(i) == IF Bit(a, i) = 1 /\ Bit(b, i) = 0 THEN 2 ^ i ELSE 0
    IN  bit(0) + bit(1) + bit(2) + bit(3) + bit(4) + bit(5) + bit(6) + bit(7)

(***************************************************************************)
(* parseKeyMapping, after the key name has been trimmed, upper-cased and   *)
(* split at '+': the modifier token and the base-key token.                *)
(***************************************************************************)
Letters ==
    << "A", "B", "C", "D", "E", "F", "G", "H", "I", "J", "K", "L", "M",
       "N", "O", "P", "Q", "R", "S", "T", "U", "V", "W", "X", "Y", "Z" >>

Digits == << "1", "2", "3", "4", "5", "6", "7", "8", "9" >>

Range(seq) == {seq[i] : i \in 1..Len(seq)}

IndexOf(seq, x) == CHOOSE i \in 1..Len(seq) : seq[i] = x

IsIn(seq, x) == \E i \in 1..Len(seq) : seq[i] = x

\* The if / else-if chain over modifierStr; an unknown token leaves the mask 0.
parseModifier(modifierStr) ==
    CASE modifierStr \in {"SHIFT", "LEFTSHIFT"} -> MODIFIERKEY_LEFTSHIFT
      [] modifierStr \in {"RSHIFT", "RIGHTSHIFT"} -> MODIFIERKEY_RIGHTSHIFT
      [] modifierStr \in {"CTRL", "CONTROL", "LEFTCTRL"} -> MODIFIERKEY_LEFTCTRL
      [] modifierStr \in {"RCTRL", "RIGHTCTRL"} -> MODIFIERKEY_RIGHTCTRL
      [] modifierStr \in {"ALT", "LEFTALT"} -> MODIFIERKEY_LEFTALT
      [] modifierStr \in {"RALT", "RIGHTALT"} -> MODIFIERKEY_RIGHTALT
      [] modifierStr \in {"META", "WIN", "CMD", "LEFTMETA"} -> MODIFIERKEY_LEFTMETA
      [] modifierStr \in {"RMETA", "RIGHTMETA"} -> MODIFIERKEY_RIGHTMETA
      [] OTHER -> 0

KeyResult(ok, keyCode, modifierMask) ==
    [ok |-> ok, keyCode |-> keyCode, modifierMask |-> modifierMask]

\* The chain of returns over baseKey; mask is the modifier mask parsed so far.
parseBaseKey(baseKey, mask) ==
    CASE IsIn(Letters, baseKey) -> KeyResult(TRUE, KEY_A + (IndexOf(Letters, baseKey) - 1), mask)
      [] baseKey = "0" -> KeyResult(TRUE, KEY_0, mask)
      [] IsIn(Digits, baseKey) -> KeyResult(TRUE, KEY_1 + (IndexOf(Digits, baseKey) - 1), mask)
      [] baseKey \in {"SPACE", "SPC"} -> KeyResult(TRUE, KEY_SPACE, mask)
      [] baseKey \in {"ENTER", "RETURN"} -> KeyResult(TRUE, KEY_ENTER, mask)
      [] baseKey = "TAB" -> KeyResult(TRUE, KEY_TAB, mask)
      [] baseKey \in {"ESC", "ESCAPE"} -> KeyResult(TRUE, KEY_ESC, mask)
      [] baseKey \in {"BACKSPACE", "BS"} -> KeyResult(TRUE, KEY_BACKSPACE, mask)
      [] baseKey \in {"LSHIFT", "LEFTSHIFT"} -> KeyResult(TRUE, 0, MODIFIERKEY_LEFTSHIFT)
      [] baseKey \in {"RSHIFT", "RIGHTSHIFT"} -> KeyResult(TRUE, 0, MODIFIERKEY_RIGHTSHIFT)
      [] baseKey \in {"LCTRL", "LEFTCTRL"} -> KeyResult(TRUE, 0, MODIFIERKEY_LEFTCTRL)
      [] baseKey \in {"RCTRL", "RIGHTCTRL"} -> KeyResult(TRUE, 0, MODIFIERKEY_RIGHTCTRL)
      [] baseKey \in {"LALT", "LEFTALT"} -> KeyResult(TRUE, 0, MODIFIERKEY_LEFTALT)
      [] baseKey \in {"RALT", "RIGHTALT"} -> KeyResult(TRUE, 0, MODIFIERKEY_RIGHTALT)
      [] baseKey \in {"LMETA", "LEFTMETA", "LWIN", "LCMD"} -> KeyResult(TRUE, 0, MODIFIERKEY_LEFTMETA)
      [] baseKey \in {"RMETA", "RIGHTMETA", "RWIN", "RCMD"} -> KeyResult(TRUE, 0, MODIFIERKEY_RIGHTMETA)
      [] baseKey \in {"COMMA", ","} -> KeyResult(TRUE, KEY_COMMA, mask)
      [] baseKey \in {"DOT", "PERIOD", "."} -> KeyResult(TRUE, KEY_DOT, mask)
      [] baseKey \in {"SLASH", "/", "?"} -> KeyResult(TRUE, KEY_SLASH, mask)
      [] baseKey \in {"MINUS", "-", "DASH"} -> KeyResult(TRUE, KEY_MINUS, mask)
      [] baseKey \in {"EQUAL", "EQUALS", "="} -> KeyResult(TRUE, KEY_EQUAL, mask)
      [] baseKey \in {"LEFTBRACE", "LBRACE", "["} -> KeyResult(TRUE, KEY_LEFTBRACE, mask)
      [] baseKey \in {"RIGHTBRACE", "RBRACE", "]"} -> KeyResult(TRUE, KEY_RIGHTBRACE, mask)
      [] baseKey \in {"BACKSLASH", "BSLASH", "\\"} -> KeyResult(TRUE, KEY_BACKSLASH, mask)
      [] OTHER -> KeyResult(FALSE, 0, mask)

parseKeyMapping(modifierStr, baseKey) ==
    parseBaseKey(baseKey, IF modifierStr # "" THEN parseModifier(modifierStr) ELSE 0)

(***************************************************************************)
(* The split of the key name at '+'.  A key name is given by its pieces:   *)
(* the trimmed, upper-cased texts between its '+' signs, so that           *)
(* << "SHIFT", "H" >> is "SHIFT+H" and << "", "A" >> is "+A".              *)
(***************************************************************************)
RECURSIVE JoinPlus(_)
JoinPlus(pieces) ==
    IF Len(pieces) = 1 THEN pieces[1] ELSE pieces[1] \o "+" \o JoinPlus(Tail(pieces))

\* indexOf('+') > 0: the text before the first '+' is the modifier, the rest
\* the base key.  Otherwise lastIndexOf('+') > 0 takes the text after the
\* last '+' as the modifier; with no '+' past position 0 the whole name is
\* the base key.
splitKeyName(pieces) ==
    IF Len(pieces) >= 2 /\ pieces[1] # ""
    THEN [modifierStr |-> pieces[1], baseKey |-> JoinPlus(Tail(pieces))]
    ELSE IF Len(pieces) >= 3
         THEN [modifierStr |-> pieces[Len(pieces)],
               baseKey |-> JoinPlus(SubSeq(pieces, 1, Len(pieces) - 1))]
         ELSE [modifierStr |-> "", baseKey |-> JoinPlus(pieces)]

(***************************************************************************)
(* The pressed-key list.  pressedKeyCount is the length of the sequence.   *)
(***************************************************************************)
PressedKey(keyCode, modifierMask) == [keyCode |-> keyCode, modifierMask |-> modifierMask]

RemoveAt(seq, i) == SubSeq(seq, 1, i - 1) \o SubSeq(seq, i + 1, Len(seq))

\* addPressedKey without the search for the pair.
addPressedKeyNoSearch(pk, keyCode, modifierMask) ==
    IF Len(pk) < MAX_SIMULTANEOUS_KEYS
    THEN Append(pk, PressedKey(keyCode, modifierMask))
    ELSE pk

\* addPressedKey making room by dropping the oldest entry.
addPressedKeyEvictsOldest(pk, keyCode, modifierMask) ==
    IF \E i \in 1..Len(pk) : pk[i] = PressedKey(keyCode, modifierMask)
    THEN pk
    ELSE IF Len(pk) < MAX_SIMULTANEOUS_KEYS
         THEN Append(pk, PressedKey(keyCode, modifierMask))
         ELSE Append(Tail(pk), PressedKey(keyCode, modifierMask))

\* addPressedKey without the "if we have room" test.
addPressedKeyNoRoomTest(pk, keyCode, modifierMask) ==
    IF \E i \in 1..Len(pk) : pk[i] = PressedKey(keyCode, modifierMask)
    THEN pk
    ELSE Append(pk, PressedKey(keyCode, modifierMask))

addPressedKey(pk, keyCode, modifierMask) ==
    IF \E i \in 1..Len(pk) : pk[i] = PressedKey(keyCode, modifierMask)
    THEN pk
    ELSE IF Len(pk) < MAX_SIMULTANEOUS_KEYS
         THEN Append(pk, PressedKey(keyCode, modifierMask))
         ELSE pk

\* removePressedKey matching on the key code alone.
removePressedKeyAnyModifier(pk, keyCode, modifierMask) ==
    IF \E i \in 1..Len(pk) : pk[i].keyCode = keyCode
    THEN RemoveAt(pk, CHOOSE i \in 1..Len(pk) :
                        /\ pk[i].keyCode = keyCode
                        /\ \A j \in 1..(i - 1) : pk[j].keyCode # keyCode)
    ELSE pk

\* removePressedKey with the search loop stopping one entry early.
removePressedKeySkipLast(pk, keyCode, modifierMask) ==
    IF \E i \in 1..(Len(pk) - 1) : pk[i] = PressedKey(keyCode, modifierMask)
    THEN RemoveAt(pk, CHOOSE i \in 1..(Len(pk) - 1) :
                        /\ pk[i] = PressedKey(keyCode, modifierMask)
                        /\ \A j \in 1..(i - 1) : pk[j] # PressedKey(keyCode, modifierMask))
    ELSE pk

removePressedKey(pk, keyCode, modifierMask) ==
    IF \E i \in 1..Len(pk) : pk[i] = PressedKey(keyCode, modifierMask)
    THEN RemoveAt(pk, CHOOSE i \in 1..Len(pk) :
                        /\ pk[i] = PressedKey(keyCode, modifierMask)
                        /\ \A j \in 1..(i - 1) : pk[j] # PressedKey(keyCode, modifierMask))
    ELSE pk


(***************************************************************************)
(* updateKeyboardState: the reports one refresh hands to the keyboard      *)
(* (one per Keyboard.send_now()), from the pressed-key list and the        *)
(* modifier-only mask.                                                     *)
(***************************************************************************)
Report(keys, modifier) == [keys |-> keys, modifier |-> modifier]

NoKeys == << 0, 0, 0, 0, 0, 0 >>

RECURSIVE setKeys(_, _, _, _, _)
\* The inner loop "for j = startIdx; j < i && keyIdx < MAX_SIMULTANEOUS_KEYS":
\* entries j .. last of pk go to slots keyIdx, keyIdx + 1, ... when keyCode > 0.
setKeys(pk, j, last, keyIdx, keys) ==
    IF j <= last /\ keyIdx < MAX_SIMULTANEOUS_KEYS
    THEN IF pk[j].keyCode > 0
         THEN setKeys(pk, j + 1, last, keyIdx + 1, [keys EXCEPT ![keyIdx + 1] = pk[j].keyCode])
         ELSE setKeys(pk, j + 1, last, keyIdx, keys)
    ELSE keys

\* allSameModifier comparing the last entry only.
allSameModifierEnds(pk) == pk[Len(pk)].modifierMask = pk[1].modifierMask

allSameModifier(pk) == \A i \in 2..Len(pk) : pk[i].modifierMask = pk[1].modifierMask

RECURSIVE sendBatchesKeepsStart(_, _, _, _, _, _)
\* sendBatches without "startIdx = i" when the next batch starts.
sendBatchesKeepsStart(pk, amk, i, startIdx, currentModifier, out) ==
    IF i > Len(pk) + 1
    THEN out
    ELSE LET modifierChanged == (i = Len(pk) + 1) \/ (pk[i].modifierMask # currentModifier)
         IN  IF modifierChanged /\ i > startIdx
             THEN LET rep == Report(setKeys(pk, startIdx, i - 1, 0, NoKeys),
                                    BitOr(currentModifier, amk))
                  IN  IF i <= Len(pk)
                      THEN sendBatchesKeepsStart(pk, amk, i + 1, startIdx,
                                                 pk[i].modifierMask, Append(out, rep))
                      ELSE sendBatchesKeepsStart(pk, amk, i + 1, startIdx,
                                                 currentModifier, Append(out, rep))
             ELSE sendBatchesKeepsStart(pk, amk, i + 1, startIdx, currentModifier, out)

RECURSIVE sendBatches(_, _, _, _, _, _)
\* The loop "for i = 0; i <= pressedKeyCount" of the mixed-modifier branch
\* (indices here are 1-based).
sendBatches(pk, amk, i, startIdx, currentModifier, out) ==
    IF i > Len(pk) + 1
    THEN out
    ELSE LET modifierChanged == (i = Len(pk) + 1) \/ (pk[i].modifierMask # currentModifier)
         IN  IF modifierChanged /\ i > startIdx
             THEN LET rep == Report(setKeys(pk, startIdx, i - 1, 0, NoKeys),
                                    BitOr(currentModifier, amk))
                  IN  IF i <= Len(pk)
                      THEN sendBatches(pk, amk, i + 1, i, pk[i].modifierMask, Append(out, rep))
                      ELSE sendBatches(pk, amk, i + 1, startIdx, currentModifier, Append(out, rep))
             ELSE sendBatches(pk, amk, i + 1, startIdx, currentModifier, out)

\* updateKeyboardState without "| activeModifierKeys" in the one-report branch.
updateKeyboardStateDropsMask(pk, amk) ==
    IF Len(pk) = 0 /\ amk = 0
    THEN << Report(NoKeys, 0) >>
    ELSE IF Len(pk) = 0
         THEN << Report(NoKeys, amk) >>
         ELSE IF allSameModifier(pk)
              THEN << Report(setKeys(pk, 1, Len(pk), 0, NoKeys), pk[1].modifierMask) >>
              ELSE sendBatches(pk, amk, 1, 1, pk[1].modifierMask, << >>)

\* updateKeyboardState returning at once when there is nothing to hold down.
updateKeyboardStateSilentWhenIdle(pk, amk) ==
    IF Len(pk) = 0
    THEN IF amk = 0 THEN << >> ELSE << Report(NoKeys, amk) >>
    ELSE IF allSameModifier(pk)
         THEN << Report(setKeys(pk, 1, Len(pk), 0, NoKeys),
                        BitOr(pk[1].modifierMask, amk)) >>
         ELSE sendBatches(pk, amk, 1, 1, pk[1].modifierMask, << >>)

updateKeyboardState(pk, amk) ==
    IF Len(pk) = 0 /\ amk = 0
    THEN << Report(NoKeys, 0) >>
    ELSE IF Len(pk) = 0
         THEN << Report(NoKeys, amk) >>
         ELSE IF allSameModifier(pk)
              THEN << Report(setKeys(pk, 1, Len(pk), 0, NoKeys),
                             BitOr(pk[1].modifierMask, amk)) >>
              ELSE sendBatches(pk, amk, 1, 1, pk[1].modifierMask, << >>)

(***************************************************************************)
(* Profiles and configuration.                                             *)
(***************************************************************************)
KeyMapping(keyCode, modifierMask) == [keyCode |-> keyCode, modifierMask |-> modifierMask]

NoteIndex == 0..(MAX_MIDI_NOTES - 1)

\* A noteToKey[MAX_MIDI_NOTES] array is written as the function from the
\* notes whose entry is not {0, 0} to their entries.
EmptyTable == [n \in {} |-> KeyMapping(0, 0)]

\* table[note] = mapping
SetEntry(table, note, mapping) ==
    IF mapping = KeyMapping(0, 0)
    THEN [n \in DOMAIN table \ {note} |-> table[n]]
    ELSE [n \in DOMAIN table \cup {note} |-> IF n = note THEN mapping ELSE table[n]]

\* table[note]
noteEntry(table, note) == IF note \in DOMAIN table THEN table[note] ELSE KeyMapping(0, 0)

Profile(isValid, fastPressMode, pressDurationMs, noteToKey) ==
    [isValid |-> isValid, fastPressMode |-> fastPressMode,
     pressDurationMs |-> pressDurationMs, noteToKey |-> noteToKey]

\* The initialiser of the global `config`.
DefaultConfig ==
    [fastPressMode |-> TRUE, pressDurationMs |-> 0, profileSwitchNote |-> PROFILE_SWITCH_NOTE]

\* The hardcoded fallback table: note 60 -> H, note 58 -> G.
FallbackTable ==
    SetEntry(SetEntry(EmptyTable, 60, KeyMapping(KEY_H, 0)), 58, KeyMapping(KEY_G, 0))

ProfileIndex == 0..(MAX_PROFILES - 1)

(***************************************************************************)
(* Text of the files on the card.  A line is given by what trim(),         *)
(* indexOf('=') and toUpperCase() make of it: its kind, the upper-cased    *)
(* left side, the upper-cased right side, and the right side split into    *)
(* modifier and base-key tokens.                                           *)
(***************************************************************************)
Line(kind, left, value, modifierStr, baseKey) ==
    [kind |-> kind, left |-> left, value |-> value,
     modifierStr |-> modifierStr, baseKey |-> baseKey]

SettingLine(left, value) == Line("kv", left, value, "", value)

MappingLine(left, modifierStr, baseKey) == Line("kv", left, baseKey, modifierStr, baseKey)

\* A mapping line whose right side is the key name of the given pieces.
KeyNameLine(left, pieces) ==
    Line("kv", left, JoinPlus(pieces),
         splitKeyName(pieces).modifierStr, splitKeyName(pieces).baseKey)

CommentLine == Line("comment", "", "", "", "")

SectionLine == Line("section", "", "", "", "")

BlankLine == Line("blank", "", "", "", "")

\* String::toInt on the texts that occur in the files below: the leading
\* decimal number, 0 when there is none.
toInt(s) ==
    CASE s = "0" -> 0
      [] s = "1" -> 1
      [] s = "2" -> 2
      [] s = "24" -> 24
      [] s = "36" -> 36
      [] s = "58" -> 58
      [] s = "59" -> 59
      [] s = "60" -> 60
      [] s = "61" -> 61
      [] s = "62" -> 62
      [] s = "63" -> 63
      [] s = "64" -> 64
      [] s = "65" -> 65
      [] s = "66" -> 66
      [] s = "67" -> 67
      [] s = "68" -> 68
      [] s = "127" -> 127
      [] s = "128" -> 128
      [] s = "255" -> 255
      [] s = "1000" -> 1000
      [] s = "1001" -> 1001
      [] s = "-1" -> -1
      [] s = "60X" -> 60
      [] OTHER -> 0

isTrueValue(value) == value \in {"1", "TRUE", "ON", "YES"}

\* One iteration of the line loop of loadConfig.
configLine(cfg, line) ==
    IF line.kind # "kv"
    THEN cfg
    ELSE IF line.left \in {"FAST_PRESS_MODE", "FASTPRESS"}
         THEN [cfg EXCEPT !.fastPressMode = isTrueValue(line.value)]
         ELSE IF line.left \in {"PRESS_DURATION", "DURATION"}
              THEN IF toInt(line.value) >= 0 /\ toInt(line.value) <= MAX_PRESS_DURATION
                   THEN [cfg EXCEPT !.pressDurationMs = toInt(line.value)]
                   ELSE cfg
              ELSE IF line.left \in {"PROFILE_SWITCH_NOTE", "PROFILE_SWITCH", "SWITCH_NOTE"}
                   THEN IF (toInt(line.value) >= 0 /\ toInt(line.value) < MAX_MIDI_NOTES)
                           \/ toInt(line.value) = SWITCH_DISABLED
                        THEN [cfg EXCEPT !.profileSwitchNote = toInt(line.value)]
                        ELSE cfg
                   ELSE cfg

RECURSIVE configLines(_, _, _)
configLines(cfg, lines, i) ==
    IF i > Len(lines) THEN cfg ELSE configLines(configLine(cfg, lines[i]), lines, i + 1)

\* loadConfig: configFile.present is whether CONFIG.TXT can be opened,
\* configFile.lines its lines.
loadConfig(cfg, configFile) ==
    IF ~configFile.present THEN cfg ELSE configLines(cfg, configFile.lines, 1)

\* One iteration of the line loop of loadMappings for the profile p.
mappingLine(p, line) ==
    IF line.kind # "kv"
    THEN p
    ELSE IF line.left \in {"FAST_PRESS_MODE", "FASTPRESS"}
         THEN [p EXCEPT !.fastPressMode = isTrueValue(line.value)]
         ELSE IF line.left \in {"PRESS_DURATION", "DURATION"}
              THEN IF toInt(line.value) >= 0 /\ toInt(line.value) <= MAX_PRESS_DURATION
                   THEN [p EXCEPT !.pressDurationMs = toInt(line.value)]
                   ELSE p
              ELSE LET note == toInt(line.left)
                       res == parseKeyMapping(line.modifierStr, line.baseKey)
                   IN  IF note >= 0 /\ note < MAX_MIDI_NOTES /\ res.ok
                       THEN [p EXCEPT !.noteToKey =
                                        SetEntry(p.noteToKey, note,
                                                 KeyMapping(res.keyCode, res.modifierMask))]
                       ELSE p

RECURSIVE mappingLines(_, _, _)
mappingLines(p, lines, i) ==
    IF i > Len(lines) THEN p ELSE mappingLines(mappingLine(p, lines[i]), lines, i + 1)


(***************************************************************************)
(* loadMappings.  A card is given by: sdOk (SD.begin succeeds), config     *)
(* (CONFIG.TXT), rootOk (SD.open("/") succeeds) and entries, the root      *)
(* directory listing in openNextFile order.  An entry says whether it is a *)
(* directory, whether its name starts with "._", contains "MAPPINGS" and   *)
(* ends with ".TXT" (upper-cased), whether SD.open succeeds on it, and its *)
(* lines.                                                                  *)
(***************************************************************************)
Entry(isDirectory, metaPrefix, hasMappings, endsTxt, canOpen, lines) ==
    [isDirectory |-> isDirectory, metaPrefix |-> metaPrefix, hasMappings |-> hasMappings,
     endsTxt |-> endsTxt, canOpen |-> canOpen, lines |-> lines]

RECURSIVE scanRoot(_, _, _)
\* First pass: the candidate files, at most MAX_PROFILES of them.
scanRoot(entries, i, mappingFiles) ==
    IF Len(mappingFiles) < MAX_PROFILES /\ i <= Len(entries)
    THEN IF entries[i].isDirectory \/ entries[i].metaPrefix
         THEN scanRoot(entries, i + 1, mappingFiles)
         ELSE IF entries[i].hasMappings /\ entries[i].endsTxt
              THEN scanRoot(entries, i + 1, Append(mappingFiles, entries[i]))
              ELSE scanRoot(entries, i + 1, mappingFiles)
    ELSE mappingFiles

\* What loadMappings leaves in profiles / profileCount / currentProfileIndex.
Loaded(profs, count, index) ==
    [profiles |-> profs, profileCount |-> count, currentProfileIndex |-> index]

RECURSIVE loadFiles(_, _, _, _, _)
\* Second pass: one profile per file that opens.
loadFiles(cfg, mappingFiles, fileIdx, profs, count) ==
    IF fileIdx <= Len(mappingFiles) /\ count < MAX_PROFILES
    THEN IF ~mappingFiles[fileIdx].canOpen
         THEN loadFiles(cfg, mappingFiles, fileIdx + 1, profs, count)
         ELSE LET fresh == [profs[count] EXCEPT !.isValid = TRUE,
                                                !.fastPressMode = cfg.fastPressMode,
                                                !.pressDurationMs = cfg.pressDurationMs]
                  p == mappingLines(fresh, mappingFiles[fileIdx].lines, 1)
              IN  loadFiles(cfg, mappingFiles, fileIdx + 1,
                            [profs EXCEPT ![count] = p], count + 1)
    ELSE Loaded(profs, count, 0)

\* loadMappings without the final "Ensure we have at least one profile".
loadMappingsNoEnsure(cfg, profs, card) ==
    LET cleared == [i \in ProfileIndex |->
                      [profs[i] EXCEPT !.isValid = FALSE, !.noteToKey = EmptyTable]]
    IN  IF ~card.rootOk
        THEN Loaded([cleared EXCEPT ![0].isValid = TRUE, ![0].noteToKey = FallbackTable], 1, 0)
        ELSE LET mappingFiles == scanRoot(card.entries, 1, << >>)
             IN  IF Len(mappingFiles) = 0
                 THEN Loaded([cleared EXCEPT ![0] = Profile(TRUE, cfg.fastPressMode,
                                                            cfg.pressDurationMs, FallbackTable)],
                             1, 0)
                 ELSE loadFiles(cfg, mappingFiles, 1, cleared, 0)

loadMappings(cfg, profs, card) ==
    LET cleared == [i \in ProfileIndex |->
                      [profs[i] EXCEPT !.isValid = FALSE, !.noteToKey = EmptyTable]]
    IN  IF ~card.rootOk
        THEN Loaded([cleared EXCEPT ![0].isValid = TRUE, ![0].noteToKey = FallbackTable], 1, 0)
        ELSE LET mappingFiles == scanRoot(card.entries, 1, << >>)
             IN  IF Len(mappingFiles) = 0
                 THEN Loaded([cleared EXCEPT ![0] = Profile(TRUE, cfg.fastPressMode,
                                                            cfg.pressDurationMs, FallbackTable)],
                             1, 0)
                 ELSE LET got == loadFiles(cfg, mappingFiles, 1, cleared, 0)
                      IN  IF got.profileCount = 0
                          THEN Loaded([got.profiles EXCEPT
                                         ![0].isValid = TRUE,
                                         ![0].fastPressMode = cfg.fastPressMode,
                                         ![0].pressDurationMs = cfg.pressDurationMs], 1, 0)
                          ELSE got

(***************************************************************************)
(* The cards the model boots from.                                         *)
(***************************************************************************)
Card(sdOk, config, rootOk, entries) ==
    [sdOk |-> sdOk, config |-> config, rootOk |-> rootOk, entries |-> entries]

NoConfigFile == [present |-> FALSE, lines |-> << >>]

ConfigFile(lines) == [present |-> TRUE, lines |-> lines]

MappingFile(lines) == Entry(FALSE, FALSE, TRUE, TRUE, TRUE, lines)

\* SD.begin fails.
CardMissing == Card(FALSE, NoConfigFile, FALSE, << >>)

\* CONFIG.TXT is read but the root directory cannot be listed.
CardNoRoot ==
    Card(TRUE, ConfigFile(<< SettingLine("FAST_PRESS_MODE", "OFF") >>), FALSE, << >>)

\* No candidate: a directory, a "._" file, a MAPPINGS file that is no .TXT,
\* a .TXT file without MAPPINGS.  The fallback profile is in normal mode.
CardNoCandidate ==
    Card(TRUE,
         ConfigFile(<< CommentLine, SettingLine("FASTPRESS", "NO"),
                       SettingLine("DURATION", "1001"), BlankLine >>),
         TRUE,
         << Entry(TRUE, FALSE, TRUE, FALSE, TRUE, << >>),
            Entry(FALSE, TRUE, TRUE, TRUE, TRUE, << MappingLine("61", "", "A") >>),
            Entry(FALSE, FALSE, TRUE, FALSE, TRUE, << MappingLine("61", "", "A") >>),
            Entry(FALSE, FALSE, FALSE, TRUE, TRUE, << MappingLine("61", "", "A") >> ) >>)

\* Two candidates, neither can be opened.
CardUnreadable ==
    Card(TRUE, NoConfigFile, TRUE,
         << Entry(FALSE, FALSE, TRUE, TRUE, FALSE, << >>),
            Entry(FALSE, FALSE, TRUE, TRUE, FALSE, << >>) >>)

\* Three profiles: normal mode, fast-press with duration 0, fast-press with
\* the global duration of 2 ms.  Note 24 is the profile-switch note, and
\* every profile maps it.
CardThreeProfiles ==
    Card(TRUE,
         ConfigFile(<< SettingLine("FAST_PRESS_MODE", "ON"),
                       SettingLine("PRESS_DURATION", "2") >>),
         TRUE,
         << MappingFile(<< SectionLine,
                           SettingLine("FAST_PRESS_MODE", "OFF"),
                           MappingLine("60", "SHIFT", "H"),
                           MappingLine("61", "", "A"),
                           MappingLine("62", "", "LSHIFT"),
                           MappingLine("24", "", "B"),
                           MappingLine("128", "", "C"),
                           MappingLine("63", "", "F13") >>),
            MappingFile(<< SettingLine("PRESS_DURATION", "0"),
                           MappingLine("60", "CTRL", "A"),
                           MappingLine("62", "", "RCTRL"),
                           MappingLine("24", "", "C") >>),
            MappingFile(<< CommentLine,
                           MappingLine("60", "", "A"),
                           MappingLine("62", "", "LALT"),
                           MappingLine("24", "", "LSHIFT") >>) >>)

TinyFile == MappingFile(<< MappingLine("60", "", "A") >>)

\* Nine candidates: the ninth is not loaded.
CardNineFiles ==
    Card(TRUE, NoConfigFile, TRUE,
         << TinyFile, TinyFile, TinyFile, TinyFile, TinyFile,
            TinyFile, TinyFile, TinyFile, TinyFile >>)

\* Profile switching disabled by PROFILE_SWITCH_NOTE=255.
CardNoSwitch ==
    Card(TRUE, ConfigFile(<< SettingLine("PROFILE_SWITCH_NOTE", "255") >>), TRUE,
         << TinyFile,
            MappingFile(<< SettingLine("FASTPRESS", "0"),
                           MappingLine("60", "", "B"),
                           MappingLine("24", "", "C") >>) >>)

\* A normal-mode profile with seven regular keys, two of them with a
\* modifier, and a fast-press profile with one key and a duration of 1 ms.
ChordLines ==
    << MappingLine("60", "", "A"),
       MappingLine("61", "", "B"),
       MappingLine("62", "", "C"),
       MappingLine("63", "", "D"),
       MappingLine("64", "SHIFT", "E"),
       MappingLine("65", "SHIFT", "F"),
       MappingLine("66", "", "G") >>

CardChord ==
    Card(TRUE,
         ConfigFile(<< SettingLine("FAST_PRESS_MODE", "OFF"),
                       SettingLine("PRESS_DURATION", "1") >>),
         TRUE,
         << MappingFile(ChordLines),
            MappingFile(<< SettingLine("FAST_PRESS_MODE", "YES"),
                           MappingLine("60", "", "A") >>) >>)

Cards ==
    { CardMissing, CardNoRoot, CardNoCandidate, CardUnreadable,
      CardThreeProfiles, CardNineFiles, CardNoSwitch }


(***************************************************************************)
(* `unsigned long` (32 bit) values, written as the two's complement        *)
(* integer of the same bit pattern: 0 .. 2^31 - 1 as themselves and        *)
(* 2^31 .. 2^32 - 1 as -2^31 .. -1 (so 2^32 - 1 is written -1).            *)
(***************************************************************************)
LONG_MAX == 2147483647

\* a + d modulo 2^32, for 0 <= d < 2^31
ULongAdd(a, d) ==
    IF a > LONG_MAX - d THEN ((a - LONG_MAX) + d - LONG_MAX) - 2 ELSE a + d

\* a >= b on unsigned long
ULongGE(a, b) == IF (a >= 0) <=> (b >= 0) THEN a >= b ELSE a < 0

(***************************************************************************)
(* State.                                                                  *)
(***************************************************************************)
VARIABLES
    phase,                \* "boot" before setup() has run, "run" afterwards
    config,               \* the global Config
    profiles,             \* Profile profiles[MAX_PROFILES]
    profileCount,
    currentProfileIndex,
    pressedKeys,          \* pressedKeys[0 .. pressedKeyCount - 1]
    activeModifierKeys,
    fastPressTimers,      \* fastPressTimers[0 .. fastPressKeyCount - 1]
    clock,                \* the value millis() returns
    pc,                   \* position in loop(): 0 = fast-press step, d = poll of MIDI device d
    ev,                   \* the step loop() or setup() took last
    sent,                 \* the refreshes of that step: one sequence of reports per updateKeyboardState()
    hostReport,           \* the report sent last, << >> while none has been sent
    modifierNotesHeld,    \* the modifier-only notes the devices hold down (see heldAfter)
    before                \* the state that step started from (see Snapshot)

vars ==
    << phase, config, profiles, profileCount, currentProfileIndex, pressedKeys,
       activeModifierKeys, fastPressTimers, clock, pc, ev, sent, hostReport,
       modifierNotesHeld, before >>

\* What a step of setup() or loop() starts from.
Snapshot ==
    [currentProfileIndex |-> currentProfileIndex, pressedKeys |-> pressedKeys,
     activeModifierKeys |-> activeModifierKeys, fastPressTimers |-> fastPressTimers]

Event(kind, note, velocity) == [kind |-> kind, note |-> note, velocity |-> velocity]

Timer(keyCode, modifierMask, releaseTime) ==
    [keyCode |-> keyCode, modifierMask |-> modifierMask, releaseTime |-> releaseTime]

RECURSIVE Flatten(_)
Flatten(seqs) == IF seqs = << >> THEN << >> ELSE Head(seqs) \o Flatten(Tail(seqs))

\* The reports of the last step, in the order sent.
Reports == Flatten(sent)

Init ==
    /\ phase = "boot"
    /\ config = DefaultConfig
    /\ profiles = [i \in ProfileIndex |-> Profile(FALSE, FALSE, 0, EmptyTable)]
    /\ profileCount = 0
    /\ currentProfileIndex = 0
    /\ pressedKeys = << >>
    /\ activeModifierKeys = 0
    /\ fastPressTimers = << >>
    /\ clock = 0
    /\ pc = 0
    /\ ev = Event("boot", 0, 0)
    /\ sent = << >>
    /\ hostReport = << >>
    /\ modifierNotesHeld = {}
    /\ before = Snapshot

(***************************************************************************)
(* setup()                                                                 *)
(***************************************************************************)
setup(card) ==
    LET initial == [i \in ProfileIndex |->
                      Profile(FALSE, config.fastPressMode, config.pressDurationMs, EmptyTable)]
    IN  IF ~card.sdOk
        THEN /\ profiles' = [initial EXCEPT ![0] = Profile(TRUE, config.fastPressMode,
                                                           config.pressDurationMs, FallbackTable)]
             /\ profileCount' = 1
             /\ currentProfileIndex' = 0
             /\ config' = config
        ELSE /\ config' = loadConfig(config, card.config)
             /\ LET got == loadMappings(config', initial, card)
                IN  /\ profiles' = got.profiles
                    /\ profileCount' = got.profileCount
                    /\ currentProfileIndex' = got.currentProfileIndex

Boot(cards) ==
    /\ phase = "boot"
    /\ \E card \in cards : setup(card)
    /\ phase' = "run"
    /\ ev' = Event("setup", 0, 0)
    /\ before' = Snapshot
    /\ UNCHANGED << pressedKeys, activeModifierKeys, fastPressTimers, clock, pc, sent, hostReport >>
    /\ UNCHANGED modifierNotesHeld

(***************************************************************************)
(* switchProfile                                                           *)
(***************************************************************************)
RECURSIVE releaseAll(_, _)
\* "for (i = pressedKeyCount - 1; i >= 0; i--) removePressedKey(pressedKeys[i])"
releaseAll(pk, i) ==
    IF i < 1 \/ i > Len(pk)
    THEN pk
    ELSE releaseAll(removePressedKey(pk, pk[i].keyCode, pk[i].modifierMask), i - 1)

\* switchRefreshes refreshing twice.
switchRefreshesTwice(pk) == << updateKeyboardState(pk, 0), updateKeyboardState(pk, 0) >>

\* The refreshes switchProfile makes once the keys are removed and the mask is 0.
switchRefreshes(pk) == << updateKeyboardState(pk, 0) >>

\* switchGuard testing the array bound only.
switchGuardArrayBound(profileIndex) == profileIndex < MAX_PROFILES

switchGuard(profileIndex) ==
    profileIndex < profileCount /\ profiles[profileIndex].isValid

Idle ==
    /\ sent' = << >>
    /\ UNCHANGED << currentProfileIndex, pressedKeys, activeModifierKeys, fastPressTimers >>

\* switchProfile without "Clear fast press timers".
switchProfileKeepTimers(profileIndex) ==
    IF switchGuard(profileIndex)
    THEN /\ currentProfileIndex' = profileIndex
         /\ pressedKeys' = releaseAll(pressedKeys, Len(pressedKeys))
         /\ activeModifierKeys' = 0
         /\ sent' = switchRefreshes(pressedKeys')
         /\ fastPressTimers' = fastPressTimers
    ELSE Idle

switchProfile(profileIndex) ==
    IF switchGuard(profileIndex)
    THEN /\ currentProfileIndex' = profileIndex
         /\ pressedKeys' = releaseAll(pressedKeys, Len(pressedKeys))
         /\ activeModifierKeys' = 0
         /\ sent' = switchRefreshes(pressedKeys')
         /\ fastPressTimers' = << >>
    ELSE Idle

(***************************************************************************)
(* processMidiMessage                                                      *)
(***************************************************************************)
\* nextProfile without the modulo.
nextProfileNoWrap == currentProfileIndex + 1

nextProfile == (currentProfileIndex + 1) % profileCount

isSwitchNote(type, note, velocity) ==
    /\ config.profileSwitchNote < SWITCH_DISABLED
    /\ type = "NoteOn"
    /\ velocity > 0
    /\ note = config.profileSwitchNote

\* scheduleRelease making room by dropping the oldest timer.
scheduleReleaseDropsOldest(timers, mapping, now, profileDuration) ==
    Append(IF Len(timers) < MAX_SIMULTANEOUS_KEYS THEN timers ELSE Tail(timers),
           Timer(mapping.keyCode, mapping.modifierMask, ULongAdd(now, profileDuration)))

\* scheduleRelease moving the release of a pair that has a timer to the new
\* press instead of storing one more timer.
scheduleReleaseExtendsHold(timers, mapping, now, profileDuration) ==
    IF \E i \in 1..Len(timers) : /\ timers[i].keyCode = mapping.keyCode
                                 /\ timers[i].modifierMask = mapping.modifierMask
    THEN [i \in 1..Len(timers) |->
             IF timers[i].keyCode = mapping.keyCode
                   /\ timers[i].modifierMask = mapping.modifierMask
             THEN Timer(mapping.keyCode, mapping.modifierMask,
                        ULongAdd(now, profileDuration))
             ELSE timers[i]]
    ELSE IF Len(timers) < MAX_SIMULTANEOUS_KEYS
         THEN Append(timers, Timer(mapping.keyCode, mapping.modifierMask,
                                   ULongAdd(now, profileDuration)))
         ELSE timers

\* The timer list after the "Schedule release" block of a timed press at millis() = now.
scheduleRelease(timers, mapping, now, profileDuration) ==
    IF Len(timers) < MAX_SIMULTANEOUS_KEYS
    THEN Append(timers, Timer(mapping.keyCode, mapping.modifierMask,
                              ULongAdd(now, profileDuration)))
    ELSE timers

\* noteOn without the branch for modifier-only keys.
noteOnNoModifierBranch(mapping) ==
    LET profileFastPress == profiles[currentProfileIndex].fastPressMode
        profileDuration == profiles[currentProfileIndex].pressDurationMs
        added == addPressedKey(pressedKeys, mapping.keyCode, mapping.modifierMask)
        released == removePressedKey(added, mapping.keyCode, mapping.modifierMask)
    IN  IF mapping.keyCode > 0 \/ mapping.modifierMask > 0
        THEN IF profileFastPress
             THEN IF profileDuration = 0
                  THEN /\ pressedKeys' = released
                       /\ sent' = << updateKeyboardState(added, activeModifierKeys),
                                     updateKeyboardState(released, activeModifierKeys) >>
                       /\ UNCHANGED << currentProfileIndex, activeModifierKeys,
                                       fastPressTimers >>
                  ELSE /\ pressedKeys' = added
                       /\ sent' = << updateKeyboardState(added, activeModifierKeys) >>
                       /\ fastPressTimers' = scheduleRelease(fastPressTimers, mapping,
                                                             clock, profileDuration)
                       /\ UNCHANGED << currentProfileIndex, activeModifierKeys >>
             ELSE /\ pressedKeys' = added
                  /\ sent' = << updateKeyboardState(added, activeModifierKeys) >>
                  /\ UNCHANGED << currentProfileIndex, activeModifierKeys,
                                  fastPressTimers >>
        ELSE Idle

noteOn(mapping) ==
    LET profileFastPress == profiles[currentProfileIndex].fastPressMode
        profileDuration == profiles[currentProfileIndex].pressDurationMs
        added == addPressedKey(pressedKeys, mapping.keyCode, mapping.modifierMask)
        released == removePressedKey(added, mapping.keyCode, mapping.modifierMask)
    IN  IF mapping.keyCode > 0 \/ mapping.modifierMask > 0
        THEN IF mapping.keyCode = 0 /\ mapping.modifierMask > 0
             THEN /\ activeModifierKeys' = BitOr(activeModifierKeys, mapping.modifierMask)
                  /\ sent' = << updateKeyboardState(pressedKeys, activeModifierKeys') >>
                  /\ UNCHANGED << currentProfileIndex, pressedKeys, fastPressTimers >>
             ELSE IF profileFastPress
                  THEN IF profileDuration = 0
                       THEN /\ pressedKeys' = released
                            /\ sent' = << updateKeyboardState(added, activeModifierKeys),
                                          updateKeyboardState(released, activeModifierKeys) >>
                            /\ UNCHANGED << currentProfileIndex, activeModifierKeys,
                                            fastPressTimers >>
                       ELSE /\ pressedKeys' = added
                            /\ sent' = << updateKeyboardState(added, activeModifierKeys) >>
                            /\ fastPressTimers' = scheduleRelease(fastPressTimers, mapping,
                                                                  clock, profileDuration)
                            /\ UNCHANGED << currentProfileIndex, activeModifierKeys >>
                  ELSE /\ pressedKeys' = added
                       /\ sent' = << updateKeyboardState(added, activeModifierKeys) >>
                       /\ UNCHANGED << currentProfileIndex, activeModifierKeys,
                                       fastPressTimers >>
        ELSE Idle

\* noteOff releasing a regular key in every mode.
noteOffAnyMode(mapping) ==
    LET released == removePressedKey(pressedKeys, mapping.keyCode, mapping.modifierMask)
    IN  IF mapping.keyCode > 0 \/ mapping.modifierMask > 0
        THEN IF mapping.keyCode = 0 /\ mapping.modifierMask > 0
             THEN /\ activeModifierKeys' = BitAndNot(activeModifierKeys, mapping.modifierMask)
                  /\ sent' = << updateKeyboardState(pressedKeys, activeModifierKeys') >>
                  /\ UNCHANGED << currentProfileIndex, pressedKeys, fastPressTimers >>
             ELSE /\ pressedKeys' = released
                  /\ sent' = << updateKeyboardState(released, activeModifierKeys) >>
                  /\ UNCHANGED << currentProfileIndex, activeModifierKeys, fastPressTimers >>
        ELSE Idle

\* noteOff without the refresh after a regular key's removal.
noteOffNoRefresh(mapping) ==
    LET profileFastPress == profiles[currentProfileIndex].fastPressMode
        released == removePressedKey(pressedKeys, mapping.keyCode, mapping.modifierMask)
    IN  IF mapping.keyCode > 0 \/ mapping.modifierMask > 0
        THEN IF mapping.keyCode = 0 /\ mapping.modifierMask > 0
             THEN /\ activeModifierKeys' = BitAndNot(activeModifierKeys, mapping.modifierMask)
                  /\ sent' = << updateKeyboardState(pressedKeys, activeModifierKeys') >>
                  /\ UNCHANGED << currentProfileIndex, pressedKeys, fastPressTimers >>
             ELSE IF ~profileFastPress
                  THEN /\ pressedKeys' = released
                       /\ sent' = << >>
                       /\ UNCHANGED << currentProfileIndex, activeModifierKeys,
                                       fastPressTimers >>
                  ELSE Idle
        ELSE Idle

noteOff(mapping) ==
    LET profileFastPress == profiles[currentProfileIndex].fastPressMode
        released == removePressedKey(pressedKeys, mapping.keyCode, mapping.modifierMask)
    IN  IF mapping.keyCode > 0 \/ mapping.modifierMask > 0
        THEN IF mapping.keyCode = 0 /\ mapping.modifierMask > 0
             THEN /\ activeModifierKeys' = BitAndNot(activeModifierKeys, mapping.modifierMask)
                  /\ sent' = << updateKeyboardState(pressedKeys, activeModifierKeys') >>
                  /\ UNCHANGED << currentProfileIndex, pressedKeys, fastPressTimers >>
             ELSE IF ~profileFastPress
                  THEN /\ pressedKeys' = released
                       /\ sent' = << updateKeyboardState(released, activeModifierKeys) >>
                       /\ UNCHANGED << currentProfileIndex, activeModifierKeys,
                                       fastPressTimers >>
                  ELSE Idle
        ELSE Idle

processMidiMessage(type, note, velocity) ==
    IF isSwitchNote(type, note, velocity)
    THEN IF profileCount > 1 THEN switchProfile(nextProfile) ELSE Idle
    ELSE IF type = "NoteOn" /\ velocity > 0
         THEN noteOn(noteEntry(profiles[currentProfileIndex].noteToKey, note))
         ELSE IF type = "NoteOff" \/ (type = "NoteOn" /\ velocity = 0)
              THEN noteOff(noteEntry(profiles[currentProfileIndex].noteToKey, note))
              ELSE Idle

(***************************************************************************)
(* handleFastPress                                                         *)
(***************************************************************************)
RECURSIVE scanTimersOneRelease(_, _, _, _)
\* scanTimers leaving the loop after the first release.
scanTimersOneRelease(now, amk, i, st) ==
    IF i < 1
    THEN st
    ELSE LET pk == removePressedKey(st.pk, st.timers[i].keyCode,
                                    st.timers[i].modifierMask)
         IN  IF ULongGE(now, st.timers[i].releaseTime)
             THEN [pk |-> pk,
                   timers |-> RemoveAt(st.timers, i),
                   log |-> Append(st.log, updateKeyboardState(pk, amk))]
             ELSE CHOOSE r \in {scanTimersOneRelease(now, amk, i - 1, s) : s \in {st}} : TRUE

\* timerExpired with > for >=.
timerExpiredStrict(now, timer) == ULongGE(now, timer.releaseTime) /\ now # timer.releaseTime

timerExpired(now, timer) == ULongGE(now, timer.releaseTime)

RECURSIVE scanTimers(_, _, _, _)
\* The loop "for (i = fastPressKeyCount - 1; i >= 0; i--)"; st holds the
\* pressed keys, the timers and the refreshes made so far.  The state after
\* iteration i is bound as a value (s \in {...}) before the loop goes on.
scanTimers(now, amk, i, st) ==
    IF i < 1
    THEN st
    ELSE LET pk == removePressedKey(st.pk, st.timers[i].keyCode,
                                    st.timers[i].modifierMask)
             after == IF timerExpired(now, st.timers[i])
                      THEN [pk |-> pk,
                            timers |-> RemoveAt(st.timers, i),
                            log |-> Append(st.log, updateKeyboardState(pk, amk))]
                      ELSE st
         IN  CHOOSE r \in {scanTimers(now, amk, i - 1, s) : s \in {after}} : TRUE

handleFastPress ==
    LET st == scanTimers(clock, activeModifierKeys, Len(fastPressTimers),
                         [pk |-> pressedKeys, timers |-> fastPressTimers, log |-> << >>])
    IN  /\ pressedKeys' = st.pk
        /\ fastPressTimers' = st.timers
        /\ sent' = st.log
        /\ UNCHANGED << currentProfileIndex, activeModifierKeys >>

(***************************************************************************)
(* loop(): the fast-press step, then the four MIDI devices in turn.        *)
(***************************************************************************)
fastPressGate ==
    profiles[currentProfileIndex].isValid /\ profiles[currentProfileIndex].fastPressMode

\* The report the keyboard holds after the step.
LastSent == IF Flatten(sent') = << >>
            THEN hostReport
            ELSE << Flatten(sent')[Len(Flatten(sent'))] >>

\* The notes the MIDI devices play: those some profile maps, the
\* profile-switch note, and the last note of the range.
PlayedNotes ==
    UNION {DOMAIN profiles[i].noteToKey : i \in ProfileIndex}
        \cup ({config.profileSwitchNote} \cap NoteIndex)
        \cup {MAX_MIDI_NOTES - 1}

\* The messages read(): note-on with a velocity, note-on with velocity 0,
\* note-off, and a message of another type.
Messages ==
    {Event("NoteOn", n, 64) : n \in PlayedNotes}
        \cup {Event("NoteOn", n, 0) : n \in PlayedNotes}
        \cup {Event("NoteOff", n, 0) : n \in PlayedNotes}
        \cup {Event("Other", 0, 0)}

LoopFastPress ==
    /\ phase = "run"
    /\ pc = 0
    /\ IF fastPressGate THEN handleFastPress ELSE Idle
    /\ pc' = 1
    /\ ev' = Event("tick", 0, 0)
    /\ before' = Snapshot
    /\ hostReport' = LastSent
    /\ UNCHANGED << phase, config, profiles, profileCount, clock >>
    /\ UNCHANGED modifierNotesHeld

\* The modifier-only notes held down once the message m has been processed:
\* the notes of the active profile mapped to a modifier alone for which a
\* note-on has been read since the last profile switch and no note-off
\* (or note-on with velocity 0) since.
heldAfter(m) ==
    LET mapping == noteEntry(profiles[currentProfileIndex].noteToKey, m.note)
    IN  IF isSwitchNote(m.kind, m.note, m.velocity) /\ profileCount > 1
        THEN {}
        ELSE IF m.kind = "NoteOn" /\ m.velocity > 0
             THEN IF mapping.keyCode = 0 /\ mapping.modifierMask > 0
                  THEN modifierNotesHeld \cup {m.note}
                  ELSE modifierNotesHeld
             ELSE IF m.kind = "NoteOff" \/ (m.kind = "NoteOn" /\ m.velocity = 0)
                  THEN modifierNotesHeld \ {m.note}
                  ELSE modifierNotesHeld

\* nextPc going from the last device back to the first.
nextPcDevicesOnly == IF pc = NUM_MIDI_DEVICES THEN 1 ELSE pc + 1

nextPc == IF pc = NUM_MIDI_DEVICES THEN 0 ELSE pc + 1

\* "if (midiN && midiN.read())" is false: nothing to process.
PollNothing ==
    /\ phase = "run"
    /\ pc \in 1..NUM_MIDI_DEVICES
    /\ Idle
    /\ pc' = nextPc
    /\ ev' = Event("none", 0, 0)
    /\ before' = Snapshot
    /\ UNCHANGED << phase, config, profiles, profileCount, clock, hostReport >>
    /\ UNCHANGED modifierNotesHeld

Poll(messages) ==
    /\ phase = "run"
    /\ pc \in 1..NUM_MIDI_DEVICES
    /\ \E m \in messages :
          /\ processMidiMessage(m.kind, m.note, m.velocity)
          /\ modifierNotesHeld' = heldAfter(m)
          /\ ev' = m
    /\ pc' = nextPc
    /\ hostReport' = LastSent
    /\ before' = Snapshot
    /\ UNCHANGED << phase, config, profiles, profileCount, clock >>

\* The millisecond counter advances.
ClockTick ==
    /\ phase = "run"
    /\ clock < MaxClock
    /\ clock' = ULongAdd(clock, 1)
    /\ UNCHANGED << phase, config, profiles, profileCount, currentProfileIndex, pressedKeys,
                    activeModifierKeys, fastPressTimers, pc, ev, sent, hostReport, before >>
    /\ UNCHANGED modifierNotesHeld

\* A long period in which no message arrives and no timer is pending:
\* loop() runs without effect, the clock ends WrapMargin ms before 2^32.
LongIdle ==
    /\ phase = "run"
    /\ fastPressTimers = << >>
    /\ clock >= 0
    /\ clock' = 0 - WrapMargin
    /\ UNCHANGED << phase, config, profiles, profileCount, currentProfileIndex, pressedKeys,
                    activeModifierKeys, fastPressTimers, pc, ev, sent, hostReport, before >>
    /\ UNCHANGED modifierNotesHeld

Setup == Boot(Cards)

PollMessage == Poll(Messages)

Next == Setup \/ LoopFastPress \/ PollNothing \/ PollMessage \/ ClockTick \/ LongIdle

Spec == Init /\ [][Next]_vars

(***************************************************************************)
(* switchProfile called with any index, as its interface allows.           *)
(***************************************************************************)
SwitchTo ==
    /\ phase = "run"
    /\ \E profileIndex \in 0..MAX_PROFILES :
          /\ switchProfile(profileIndex)
          /\ modifierNotesHeld' = IF switchGuard(profileIndex) THEN {} ELSE modifierNotesHeld
          /\ ev' = Event("switchTo", profileIndex, 0)
    /\ hostReport' = LastSent
    /\ before' = Snapshot
    /\ UNCHANGED << phase, config, profiles, profileCount, clock, pc >>

SetupSwitch == Boot({CardThreeProfiles, CardMissing})

NextSwitch ==
    \/ SetupSwitch \/ LoopFastPress \/ PollNothing \/ PollMessage
    \/ ClockTick \/ LongIdle \/ SwitchTo

SpecSwitch == Init /\ [][NextSwitch]_vars

(***************************************************************************)
(* Chords: the card with seven regular keys, played upwards.  A note-on    *)
(* is for a note at or above every note whose key is held, so that the     *)
(* pressed-key list fills to its capacity in one order.                    *)
(***************************************************************************)
HeldNotes ==
    {n \in DOMAIN profiles[currentProfileIndex].noteToKey :
        profiles[currentProfileIndex].noteToKey[n] \in Range(pressedKeys)}

ChordMessages ==
    {m \in Messages : (m.kind = "NoteOn" /\ m.velocity > 0 /\ m.note # config.profileSwitchNote)
                         => \A h \in HeldNotes : h <= m.note}

SetupChord == Boot({CardChord})

PollChord == Poll(ChordMessages)

NextChord ==
    SetupChord \/ LoopFastPress \/ PollNothing \/ PollChord \/ ClockTick \/ LongIdle

SpecChord == Init /\ [][NextChord]_vars


(***************************************************************************)
(* A timed fast-press profile under a fair loop: loop() keeps taking its   *)
(* steps and millis() keeps advancing while a timer is ahead of it.  One   *)
(* device is connected; it sends note-ons only, and none once the clock    *)
(* reads MaxClock.                                                         *)
(***************************************************************************)
CardLive ==
    Card(TRUE,
         ConfigFile(<< SettingLine("FAST_PRESS_MODE", "ON"),
                       SettingLine("PRESS_DURATION", "1") >>),
         TRUE,
         << MappingFile(<< MappingLine("60", "", "A"),
                           MappingLine("61", "", "B") >>) >>)

LiveMessages ==
    IF clock < MaxClock /\ pc = 1
    THEN {Event("NoteOn", n, 64) : n \in DOMAIN profiles[currentProfileIndex].noteToKey}
    ELSE {}

SetupLive == Boot({CardLive})

PollLive == Poll(LiveMessages)

ClockLive ==
    /\ phase = "run"
    /\ \E i \in 1..Len(fastPressTimers) : fastPressTimers[i].releaseTime > clock
    /\ clock' = ULongAdd(clock, 1)
    /\ UNCHANGED << phase, config, profiles, profileCount, currentProfileIndex, pressedKeys,
                    activeModifierKeys, fastPressTimers, pc, ev, sent, hostReport, before >>
    /\ UNCHANGED modifierNotesHeld

NextLive == SetupLive \/ LoopFastPress \/ PollNothing \/ PollLive \/ ClockLive

SpecLive ==
    /\ Init
    /\ [][NextLive]_vars
    /\ WF_vars(LoopFastPress)
    /\ WF_vars(PollNothing \/ PollLive)
    /\ WF_vars(ClockLive)

(***************************************************************************)
(* The timed fast-press profile of CardLive with note-ons on every device  *)
(* and a free-running clock: several presses fall between two runs of      *)
(* handleFastPress, at the same and at different values of millis().       *)
(***************************************************************************)
TimerMessages ==
    {Event("NoteOn", n, 64) : n \in DOMAIN profiles[currentProfileIndex].noteToKey}

PollTimers == Poll(TimerMessages)

NextTimers ==
    SetupLive \/ LoopFastPress \/ PollNothing \/ PollTimers \/ ClockTick

SpecTimers == Init /\ [][NextTimers]_vars

(***************************************************************************)
(* Modifier-only notes: a normal-mode profile in which two notes are       *)
(* mapped to the left shift bit and one to the right control bit, and a    *)
(* fast-press profile with two modifier-only notes on different bits.      *)
(***************************************************************************)
CardModifiers ==
    Card(TRUE, NoConfigFile, TRUE,
         << MappingFile(<< SettingLine("FAST_PRESS_MODE", "OFF"),
                           MappingLine("60", "", "A"),
                           MappingLine("62", "", "LSHIFT"),
                           MappingLine("63", "", "LEFTSHIFT"),
                           MappingLine("64", "", "RCTRL") >>),
            MappingFile(<< MappingLine("62", "", "LCTRL"),
                           MappingLine("63", "", "LALT") >>) >>)

SetupModifiers == Boot({CardModifiers})

NextModifiers == SetupModifiers \/ LoopFastPress \/ PollNothing \/ PollMessage

SpecModifiers == Init /\ [][NextModifiers]_vars

(***************************************************************************)
(* Key names with a modifier: cards with one mapping file that names the   *)
(* base key alone for note 1, "MOD+KEY" for note 60 and "KEY+MOD" for note *)
(* 61, for every modifier token and every one-character base key.          *)
(***************************************************************************)
ModifierTokens ==
    { "SHIFT", "LEFTSHIFT", "RSHIFT", "RIGHTSHIFT", "CTRL", "CONTROL", "LEFTCTRL",
      "RCTRL", "RIGHTCTRL", "ALT", "LEFTALT", "RALT", "RIGHTALT",
      "META", "WIN", "CMD", "LEFTMETA", "RMETA", "RIGHTMETA" }

CharacterKeys ==
    Range(Letters) \cup Range(Digits)
        \cup { "0", ",", ".", "/", "?", "-", "=", "[", "]", "\\" }

KeyNameCards ==
    { Card(TRUE, NoConfigFile, TRUE,
           << MappingFile(<< KeyNameLine("1", << key >>),
                             KeyNameLine("60", << mod, key >>),
                             KeyNameLine("61", << key, mod >>) >>) >>) :
        mod \in ModifierTokens, key \in CharacterKeys }

SetupKeyNames == Boot(KeyNameCards)

NextKeyNames == SetupKeyNames

SpecKeyNames == Init /\ [][NextKeyNames]_vars

(***************************************************************************)
(* Mapping lines: cards with one mapping file that maps note 0 to Z and    *)
(* note 60 to B and ends with one more KEY=VALUE line, whose left side is  *)
(* one of LineLefts and whose right side is one of LineKeyNames.  ev holds *)
(* that line: its left side in the note field and the pieces of its key    *)
(* name in the velocity field.                                             *)
(***************************************************************************)
LineLefts ==
    { "0", "1", "60", "127", "128", "255", "1000", "-1", "60X", "ABC", "NOTE60",
      "FAST_PRES_MODE" }

LineKeyNames ==
    { << "A" >>, << "5" >>, << "SPACE" >>, << "LSHIFT" >>, << "SHIFT", "H" >>,
      << "CTRL", "ENTER" >>, << "H", "SHIFT" >>, << "F13" >>, << "ON" >>, << "" >>,
      << "SHIFT", "" >>, << "", "A" >> }

BaseLines == << MappingLine("0", "", "Z"), MappingLine("60", "", "B") >>

LineCard(left, pieces) ==
    Card(TRUE, NoConfigFile, TRUE,
         << MappingFile(Append(BaseLines, KeyNameLine(left, pieces))) >>)

SetupLine ==
    /\ phase = "boot"
    /\ \E left \in LineLefts, pieces \in LineKeyNames :
          /\ setup(LineCard(left, pieces))
          /\ ev' = Event("line", left, pieces)
    /\ phase' = "run"
    /\ before' = Snapshot
    /\ UNCHANGED << pressedKeys, activeModifierKeys, fastPressTimers, clock, pc, sent,
                    hostReport, modifierNotesHeld >>

NextLines == SetupLine

SpecLines == Init /\ [][NextLines]_vars

(***************************************************************************)
(* The pressed-key list and the refresh on their own: addPressedKey,       *)
(* removePressedKey and updateKeyboardState applied, in any order, to the  *)
(* lists a normal-mode profile can build from the pairs of KeyPairs, with  *)
(* the modifier-only mask one of KeyMasks.  ev names the call; for an add  *)
(* or a remove its note and velocity fields hold the pair's keyCode and    *)
(* modifierMask.                                                           *)
(***************************************************************************)
KeyPairs ==
    {PressedKey(KEY_A + i, 0) : i \in 0..5}
        \cup {PressedKey(KEY_A, MODIFIERKEY_LEFTSHIFT)}

KeyMasks == {0, MODIFIERKEY_LEFTCTRL + MODIFIERKEY_LEFTSHIFT}

InitKeys ==
    /\ phase = "keys"
    /\ config = DefaultConfig
    /\ profiles = [i \in ProfileIndex |-> Profile(FALSE, FALSE, 0, EmptyTable)]
    /\ profileCount = 0
    /\ currentProfileIndex = 0
    /\ pressedKeys = << >>
    /\ activeModifierKeys \in KeyMasks
    /\ fastPressTimers = << >>
    /\ clock = 0
    /\ pc = 0
    /\ ev = Event("boot", 0, 0)
    /\ sent = << >>
    /\ hostReport = << >>
    /\ modifierNotesHeld = {}
    /\ before = Snapshot

KeysAdd ==
    /\ phase = "keys"
    /\ \E p \in KeyPairs :
          /\ pressedKeys' = addPressedKey(pressedKeys, p.keyCode, p.modifierMask)
          /\ ev' = Event("add", p.keyCode, p.modifierMask)
    /\ sent' = << >>
    /\ before' = Snapshot
    /\ UNCHANGED << phase, config, profiles, profileCount, currentProfileIndex,
                    activeModifierKeys, fastPressTimers, clock, pc, hostReport >>
    /\ UNCHANGED modifierNotesHeld

KeysRemove ==
    /\ phase = "keys"
    /\ \E p \in KeyPairs :
          /\ pressedKeys' = removePressedKey(pressedKeys, p.keyCode, p.modifierMask)
          /\ ev' = Event("remove", p.keyCode, p.modifierMask)
    /\ sent' = << >>
    /\ before' = Snapshot
    /\ UNCHANGED << phase, config, profiles, profileCount, currentProfileIndex,
                    activeModifierKeys, fastPressTimers, clock, pc, hostReport >>
    /\ UNCHANGED modifierNotesHeld

KeysRefresh ==
    /\ phase = "keys"
    /\ sent' = << updateKeyboardState(pressedKeys, activeModifierKeys) >>
    /\ ev' = Event("refresh", 0, 0)
    /\ before' = Snapshot
    /\ UNCHANGED << phase, config, profiles, profileCount, currentProfileIndex, pressedKeys,
                    activeModifierKeys, fastPressTimers, clock, pc, hostReport >>
    /\ UNCHANGED modifierNotesHeld

\* addPressedKey and then removePressedKey of one pair, the two list calls
\* of a duration-0 press.
KeysAddRemove ==
    /\ phase = "keys"
    /\ \E p \in KeyPairs :
          /\ pressedKeys' =
                 removePressedKey(addPressedKey(pressedKeys, p.keyCode, p.modifierMask),
                                  p.keyCode, p.modifierMask)
          /\ ev' = Event("addremove", p.keyCode, p.modifierMask)
    /\ sent' = << >>
    /\ before' = Snapshot
    /\ UNCHANGED << phase, config, profiles, profileCount, currentProfileIndex,
                    activeModifierKeys, fastPressTimers, clock, pc, hostReport >>
    /\ UNCHANGED modifierNotesHeld

NextKeys == KeysAdd \/ KeysRemove \/ KeysAddRemove \/ KeysRefresh

SpecKeys == InitKeys /\ [][NextKeys]_vars

(***************************************************************************)
(* Vocabulary of the properties.  ev, sent and before describe the last    *)
(* step of setup() or loop(); the engine variables hold what it left.      *)
(***************************************************************************)
NoteOnEvent == ev.kind = "NoteOn" /\ ev.velocity > 0

NoteOffEvent == ev.kind = "NoteOff" \/ (ev.kind = "NoteOn" /\ ev.velocity = 0)

\* The last step handled a channel message on the active profile-switch note.
OnSwitchNote ==
    /\ ev.kind \in {"NoteOn", "NoteOff"}
    /\ config.profileSwitchNote # SWITCH_DISABLED
    /\ ev.note = config.profileSwitchNote

\* The profile that was active when the last step started, and what it maps
\* the step's note to.
ProfileBefore == profiles[before.currentProfileIndex]

MappingBefore == noteEntry(ProfileBefore.noteToKey, ev.note)

PairBefore == PressedKey(MappingBefore.keyCode, MappingBefore.modifierMask)

AllZeroReport == Report(NoKeys, 0)

OneKeyReport(keyCode, modifier) == Report(<< keyCode, 0, 0, 0, 0, 0 >>, modifier)

\* The last step left the engine as it found it.
EngineUntouched ==
    /\ currentProfileIndex = before.currentProfileIndex
    /\ pressedKeys = before.pressedKeys
    /\ activeModifierKeys = before.activeModifierKeys
    /\ fastPressTimers = before.fastPressTimers

\* The last step was a note-on of the switch note that switched profiles.
Switched == NoteOnEvent /\ OnSwitchNote /\ profileCount > 1

(***************************************************************************)
(* C1: the pressed-key set and the fast-press timer list never hold more   *)
(* than MAX_SIMULTANEOUS_KEYS (6) entries, whatever notes are played.      *)
(***************************************************************************)
C1_CapacityBounded ==
    /\ Len(pressedKeys) <= MAX_SIMULTANEOUS_KEYS
    /\ Len(fastPressTimers) <= MAX_SIMULTANEOUS_KEYS

\* A seventh distinct key was pressed while six were held, and was dropped.
C1_SeventhKeyDropped ==
    /\ NoteOnEvent
    /\ ~OnSwitchNote
    /\ MappingBefore.keyCode # 0
    /\ Len(before.pressedKeys) = MAX_SIMULTANEOUS_KEYS
    /\ PairBefore \notin Range(before.pressedKeys)
    /\ pressedKeys = before.pressedKeys

(***************************************************************************)
(* C2: once setup() has run, 1 <= profileCount <= MAX_PROFILES and the     *)
(* active profile index is below profileCount and names a valid profile,   *)
(* whatever the card held.                                                 *)
(***************************************************************************)
C2_ActiveProfileValid ==
    phase = "run" =>
        /\ 1 <= profileCount
        /\ profileCount <= MAX_PROFILES
        /\ currentProfileIndex < profileCount
        /\ profiles[currentProfileIndex].isValid

\* Nine mapping files were on the card, eight were loaded, the last is active.
C2_EightProfilesLastActive ==
    /\ phase = "run"
    /\ profileCount = MAX_PROFILES
    /\ currentProfileIndex = MAX_PROFILES - 1
    /\ profiles[currentProfileIndex].isValid


(***************************************************************************)
(* C3: in a normal-mode profile with nothing held, the note-on of a note   *)
(* mapped to a regular key (K, M) leaves the set {(K, M)} and sends one    *)
(* report with K in slot 1 and modifier byte M; the note-off that follows  *)
(* empties the set and sends the all-zero report.                          *)
(***************************************************************************)
\* A note-on arrived in a normal-mode profile with no key held and no
\* modifier active, for a note the profile maps to a regular key.
C3_PressCase ==
    /\ NoteOnEvent
    /\ ~ProfileBefore.fastPressMode
    /\ before.pressedKeys = << >>
    /\ before.activeModifierKeys = 0
    /\ MappingBefore.keyCode # 0

C3_PressEffect ==
    /\ pressedKeys = << PairBefore >>
    /\ sent = << << OneKeyReport(MappingBefore.keyCode, MappingBefore.modifierMask) >> >>

\* The note-off of the only held key, in a normal-mode profile.
C3_ReleaseCase ==
    /\ ev.kind = "NoteOff"
    /\ ~ProfileBefore.fastPressMode
    /\ MappingBefore.keyCode # 0
    /\ before.pressedKeys = << PairBefore >>
    /\ before.activeModifierKeys = 0

C3_ReleaseEffect ==
    /\ pressedKeys = << >>
    /\ sent = << << AllZeroReport >> >>

\* C3 as stated, for every note n.
C3_AnyNote ==
    /\ C3_PressCase => C3_PressEffect
    /\ C3_ReleaseCase => C3_ReleaseEffect

\* C3 for a note n other than the active profile-switch note: the press and
\* the release have the stated effect.
C3_NotSwitchNote ==
    ~OnSwitchNote =>
        /\ C3_PressCase => C3_PressEffect
        /\ C3_ReleaseCase => C3_ReleaseEffect

\* 60=SHIFT+H was pressed and has just been released.
C3_ShiftHReleased ==
    /\ C3_ReleaseCase
    /\ ~OnSwitchNote
    /\ PairBefore = PressedKey(KEY_H, MODIFIERKEY_LEFTSHIFT)
    /\ hostReport = << AllZeroReport >>

(***************************************************************************)
(* C4: after a switch to another profile the pressed-key set is empty, the *)
(* standalone-modifier mask is 0, no fast-press timer is pending, the      *)
(* active index is the target, and the last report sent is all-zero.       *)
(***************************************************************************)
C4_SwitchClearsEngine ==
    Switched =>
        /\ pressedKeys = << >>
        /\ activeModifierKeys = 0
        /\ fastPressTimers = << >>
        /\ currentProfileIndex = (before.currentProfileIndex + 1) % profileCount
        /\ Reports # << >>
        /\ Reports[Len(Reports)] = AllZeroReport
        /\ hostReport = << AllZeroReport >>

\* A switch away from a profile with a key held, a modifier active and a
\* timer pending.
C4_SwitchedWhileBusy ==
    /\ Switched
    /\ before.pressedKeys # << >>
    /\ before.activeModifierKeys # 0
    /\ before.fastPressTimers # << >>
    /\ currentProfileIndex # before.currentProfileIndex

(***************************************************************************)
(* C5: a switch made while k keys are held removes them one at a time      *)
(* with a refresh after each removal, then zeroes the mask and refreshes   *)
(* once more: k + 1 refreshes.                                             *)
(***************************************************************************)
C5_RefreshPerRemoval ==
    Switched => Len(sent) = Len(before.pressedKeys) + 1

\* C5 as the code has it: a switch removes the k held keys without
\* refreshing, zeroes the mask, and then refreshes once; that one refresh
\* sends the single all-zero report.
C5_OneRefresh ==
    Switched => sent = << << AllZeroReport >> >>

\* A switch made while two or more keys were held.
C5_SwitchedWithKeysHeld ==
    /\ Switched
    /\ Len(before.pressedKeys) >= 2
    /\ pressedKeys = << >>
    /\ Len(sent) = 1


(***************************************************************************)
(* C6: switchProfile(index) with index >= profileCount, or with a target   *)
(* whose isValid flag is false, changes nothing: the active index, the     *)
(* pressed-key set, the modifier mask and the timers stay as they were and *)
(* no report is sent.                                                      *)
(***************************************************************************)
C6_InvalidSwitchIsNoOp ==
    (/\ ev.kind = "switchTo"
     /\ \/ ev.note >= profileCount
        \/ ~profiles[ev.note].isValid)
        => (EngineUntouched /\ sent = << >>)

\* switchProfile was called with an index past the loaded profiles while a
\* key was held, a modifier active and a timer pending.
C6_RefusedWhileBusy ==
    /\ ev.kind = "switchTo"
    /\ ev.note >= profileCount
    /\ ev.note < MAX_PROFILES
    /\ pressedKeys # << >>
    /\ activeModifierKeys # 0
    /\ fastPressTimers # << >>

(***************************************************************************)
(* C7: a note-on (velocity > 0) of the profile-switch note makes the       *)
(* active index (current + 1) mod profileCount when there are several      *)
(* profiles, and changes nothing and sends nothing when there is one; with *)
(* PROFILE_SWITCH_NOTE = 255 the active index never leaves 0.              *)
(***************************************************************************)
C7_SwitchNoteCycles ==
    /\ (NoteOnEvent /\ OnSwitchNote /\ profileCount > 1)
          => currentProfileIndex = (before.currentProfileIndex + 1) % profileCount
    /\ (NoteOnEvent /\ OnSwitchNote /\ profileCount = 1)
          => (EngineUntouched /\ sent = << >>)
    /\ (phase = "run" /\ config.profileSwitchNote = SWITCH_DISABLED)
          => (currentProfileIndex = 0 /\ before.currentProfileIndex = 0)

\* The switch note was played in the last of three profiles: back to the first.
C7_WrappedToFirst ==
    /\ NoteOnEvent
    /\ OnSwitchNote
    /\ profileCount = 3
    /\ before.currentProfileIndex = 2
    /\ currentProfileIndex = 0

(***************************************************************************)
(* C8: no event on the profile-switch note reads the active profile's      *)
(* mapping of that note: its note-off or velocity-0 note-on changes        *)
(* neither the pressed-key set nor the modifier mask and sends no report,  *)
(* and its note-on puts neither the mapped key nor the mapped modifier in  *)
(* a report.                                                               *)
(***************************************************************************)
C8_SwitchNoteNeverMapped ==
    OnSwitchNote =>
        /\ NoteOffEvent =>
              /\ pressedKeys = before.pressedKeys
              /\ activeModifierKeys = before.activeModifierKeys
              /\ sent = << >>
        /\ NoteOnEvent =>
              \A i \in 1..Len(Reports) :
                  /\ MappingBefore.keyCode # 0 =>
                         MappingBefore.keyCode \notin Range(Reports[i].keys)
                  /\ Reports[i].modifier = 0

(***************************************************************************)
(* C9: in a fast-press profile of duration 0, a note-on (velocity > 0) of  *)
(* a note mapped to a regular key (K, M) makes exactly two refreshes, the  *)
(* first with K pressed and the second without it, appends no timer and    *)
(* leaves the pressed-key set empty.                                       *)
(***************************************************************************)
C9_TapCase ==
    /\ NoteOnEvent
    /\ ProfileBefore.fastPressMode
    /\ ProfileBefore.pressDurationMs = 0
    /\ MappingBefore.keyCode # 0

C9_TapEffect ==
    /\ Len(sent) = 2
    /\ \E i \in 1..Len(sent[1]) :
          /\ MappingBefore.keyCode \in Range(sent[1][i].keys)
          /\ sent[1][i].modifier = BitOr(MappingBefore.modifierMask,
                                         before.activeModifierKeys)
    /\ \A i \in 1..Len(sent[2]) : MappingBefore.keyCode \notin Range(sent[2][i].keys)
    /\ fastPressTimers = before.fastPressTimers
    /\ pressedKeys = << >>

\* C9 as stated, for every note.
C9_AnyNote == C9_TapCase => C9_TapEffect

\* C9 for a note other than the active profile-switch note.
C9_NotSwitchNote == (C9_TapCase /\ ~OnSwitchNote) => C9_TapEffect

\* 60=CTRL+A was tapped while a standalone modifier was active.
C9_TappedWithModifier ==
    /\ C9_TapCase
    /\ ~OnSwitchNote
    /\ before.activeModifierKeys # 0
    /\ PairBefore = PressedKey(KEY_A, MODIFIERKEY_LEFTCTRL)
    /\ Len(sent) = 2
    /\ pressedKeys = << >>


(***************************************************************************)
(* C10: in a fast-press profile of duration d > 0 with fewer than 6        *)
(* timers pending, a note-on at time t of a note mapped to a regular key   *)
(* (K, M) puts (K, M) in the pressed-key set, refreshes, and appends the   *)
(* timer (K, M, t + d); a scheduler tick at now < t + d leaves the timer   *)
(* pending and (K, M) held; the tick at now >= t + d removes (K, M),       *)
(* refreshes, and deletes the timer.                                       *)
(***************************************************************************)
\* loop() polls a device and reads a note-on with a velocity.
C10_NoteOnStep ==
    /\ phase = "run"
    /\ pc # 0
    /\ pc' # pc
    /\ ev'.kind = "NoteOn"
    /\ ev'.velocity > 0

\* loop() takes its fast-press step.
C10_TickStep == phase = "run" /\ pc = 0 /\ pc' = 1

C10_Duration == profiles[currentProfileIndex].pressDurationMs

C10_TimedProfile == profiles[currentProfileIndex].fastPressMode /\ C10_Duration > 0

\* What the active profile maps the note of the step to.
C10_Mapping == noteEntry(profiles[currentProfileIndex].noteToKey, ev'.note)

C10_Pair == PressedKey(C10_Mapping.keyCode, C10_Mapping.modifierMask)

C10_PairOf(timer) == PressedKey(timer.keyCode, timer.modifierMask)

C10_PressCase ==
    /\ C10_NoteOnStep
    /\ C10_TimedProfile
    /\ Len(fastPressTimers) < MAX_SIMULTANEOUS_KEYS
    /\ C10_Mapping.keyCode # 0

C10_PressEffect ==
    /\ C10_Pair \in Range(pressedKeys')
    /\ Len(sent') = 1
    /\ fastPressTimers' =
           Append(fastPressTimers,
                  Timer(C10_Mapping.keyCode, C10_Mapping.modifierMask,
                        ULongAdd(clock, C10_Duration)))

\* C10 as stated; a time before the wrap of the millisecond counter is a
\* negative number here, so < is the order of the times themselves.
C10_AsStated ==
    [][ /\ C10_PressCase => C10_PressEffect
        /\ C10_TickStep =>
              \A i \in 1..Len(fastPressTimers) :
                  /\ clock < fastPressTimers[i].releaseTime =>
                        /\ fastPressTimers[i] \in Range(fastPressTimers')
                        /\ C10_PairOf(fastPressTimers[i]) \in Range(pressedKeys')
                  /\ clock >= fastPressTimers[i].releaseTime =>
                        /\ C10_PairOf(fastPressTimers[i]) \notin Range(pressedKeys')
                        /\ fastPressTimers[i] \notin Range(fastPressTimers')
                        /\ sent' # << >>
      ]_vars

\* now < stamp, both read as unsigned 32-bit numbers.
C10_StampAhead(now, stamp) ==
    IF (now < 0) <=> (stamp < 0) THEN now < stamp ELSE stamp < 0

\* The timers of the pair of timer i that the tick finds expired.
C10_ExpiredFor(i) ==
    {j \in 1..Len(fastPressTimers) :
        /\ C10_PairOf(fastPressTimers[j]) = C10_PairOf(fastPressTimers[i])
        /\ ~C10_StampAhead(clock, fastPressTimers[j].releaseTime)}

\* C10 as the code has it.  The note is not the active profile-switch note
\* and (K, M) is in the set already or the set has room: then (K, M) is in
\* the set after the note-on, one refresh is made and the timer
\* (K, M, (t + d) mod 2^32) is appended.  A tick compares now with the
\* stamp as unsigned 32-bit numbers: a timer whose stamp is ahead of now
\* stays pending, and its key stays held unless another timer of the same
\* pair expires at that tick; a timer whose stamp is not ahead of now is
\* deleted, its key is out of the set after the tick, and the tick makes
\* one refresh per expired timer.
C10_TimedPress ==
    [][ /\ (/\ C10_PressCase
            /\ ~isSwitchNote(ev'.kind, ev'.note, ev'.velocity)
            /\ \/ C10_Pair \in Range(pressedKeys)
               \/ Len(pressedKeys) < MAX_SIMULTANEOUS_KEYS)
              => C10_PressEffect
        /\ C10_TickStep =>
              /\ \A i \in 1..Len(fastPressTimers) :
                    IF C10_StampAhead(clock, fastPressTimers[i].releaseTime)
                    THEN /\ fastPressTimers[i] \in Range(fastPressTimers')
                         /\ (/\ C10_PairOf(fastPressTimers[i]) \in Range(pressedKeys)
                             /\ C10_ExpiredFor(i) = {})
                               => C10_PairOf(fastPressTimers[i]) \in Range(pressedKeys')
                    ELSE /\ C10_PairOf(fastPressTimers[i]) \notin Range(pressedKeys')
                         /\ \A j \in 1..Len(fastPressTimers') :
                               C10_StampAhead(clock, fastPressTimers'[j].releaseTime)
              /\ Len(sent') =
                    Cardinality({i \in 1..Len(fastPressTimers) :
                                    ~C10_StampAhead(clock, fastPressTimers[i].releaseTime)})
      ]_vars

\* A tick found the one pending timer expired and released its key.
C10_ReleasedByTick ==
    /\ ev.kind = "tick"
    /\ Len(before.fastPressTimers) = 1
    /\ before.pressedKeys =
           << PressedKey(before.fastPressTimers[1].keyCode,
                         before.fastPressTimers[1].modifierMask) >>
    /\ fastPressTimers = << >>
    /\ pressedKeys = << >>
    /\ Len(sent) = 1

(***************************************************************************)
(* C11: in a fast-press profile, a regular key that a note-on put in the   *)
(* pressed-key set is eventually out of it again, with no note-off and no  *)
(* profile switch, while loop() keeps running and the clock advances.      *)
(***************************************************************************)
C11_LivePairs == {PressedKey(KEY_A, 0), PressedKey(KEY_A + 1, 0)}

C11_FastKeyReleased ==
    \A p \in C11_LivePairs :
        (p \in Range(pressedKeys)) ~> (p \notin Range(pressedKeys))

(***************************************************************************)
(* C12: while the active profile is in fast-press mode, the note-off (or   *)
(* velocity-0 note-on) of a note mapped to a regular key changes nothing:  *)
(* pressed keys, modifier mask, timers and active index stay as they were  *)
(* and no report is sent.                                                  *)
(***************************************************************************)
C12_FastNoteOffIsNoOp ==
    (NoteOffEvent /\ ProfileBefore.fastPressMode /\ MappingBefore.keyCode # 0)
        => (EngineUntouched /\ sent = << >>)

\* The note-off of a key that a timed press still holds.
C12_NoteOffWhileHeld ==
    /\ NoteOffEvent
    /\ ProfileBefore.fastPressMode
    /\ MappingBefore.keyCode # 0
    /\ PairBefore \in Range(pressedKeys)
    /\ fastPressTimers # << >>
    /\ activeModifierKeys # 0

(***************************************************************************)
(* Vocabulary of the refresh properties: the last step was one refresh of  *)
(* the list pressedKeys under the mask activeModifierKeys.                 *)
(***************************************************************************)
Refreshed == ev.kind = "refresh" /\ Len(sent) = 1

\* The key codes of entries from .. to of the list, in six slots.
SlotsOf(from, to) ==
    [i \in 1..MAX_SIMULTANEOUS_KEYS |->
        IF from + i - 1 <= to THEN pressedKeys[from + i - 1].keyCode ELSE 0]

SharedModifier == \A i \in 1..Len(pressedKeys) :
                      pressedKeys[i].modifierMask = pressedKeys[1].modifierMask

\* Where the maximal runs of adjacent entries with one modifier start.
RunStarts ==
    {i \in 1..Len(pressedKeys) :
        i = 1 \/ pressedKeys[i].modifierMask # pressedKeys[i - 1].modifierMask}

RunStart(k) == CHOOSE i \in RunStarts : Cardinality({j \in RunStarts : j <= i}) = k

RunEnd(k) == IF k = Cardinality(RunStarts) THEN Len(pressedKeys) ELSE RunStart(k + 1) - 1

\* The number of key codes a report carries.
CodeCount(report) == Cardinality({i \in 1..Len(report.keys) : report.keys[i] # 0})

RECURSIVE CodesBefore(_, _)
\* The number of key codes in the reports before report k.
CodesBefore(reports, k) ==
    IF k <= 1 THEN 0 ELSE CodesBefore(reports, k - 1) + CodeCount(reports[k - 1])

(***************************************************************************)
(* C13: a refresh of a list of N >= 1 entries that share one modifier M    *)
(* sends exactly one report: the N key codes in insertion order, and the   *)
(* modifier byte M | activeModifierKeys (M itself when the mask is 0).     *)
(***************************************************************************)
C13_OneReportForSharedModifier ==
    (Refreshed /\ Len(pressedKeys) >= 1 /\ SharedModifier) =>
        /\ Len(sent[1]) = 1
        /\ sent[1][1].keys = SlotsOf(1, Len(pressedKeys))
        /\ CodeCount(sent[1][1]) = Len(pressedKeys)
        /\ sent[1][1].modifier = BitOr(pressedKeys[1].modifierMask, activeModifierKeys)
        /\ activeModifierKeys = 0 => sent[1][1].modifier = pressedKeys[1].modifierMask

\* Six keys with one modifier were refreshed under a modifier-only mask.
C13_SixKeyChordRefreshed ==
    /\ Refreshed
    /\ Len(pressedKeys) = MAX_SIMULTANEOUS_KEYS
    /\ SharedModifier
    /\ activeModifierKeys # 0
    /\ Len(sent[1]) = 1

(***************************************************************************)
(* C14: a refresh of a list whose entries do not share one modifier sends  *)
(* one report per maximal run of adjacent entries with the same modifier,  *)
(* in run order; each report carries its run's key codes in insertion      *)
(* order and the modifier byte (run modifier) | activeModifierKeys.        *)
(***************************************************************************)
C14_OneReportPerRun ==
    (Refreshed /\ Len(pressedKeys) >= 1 /\ ~SharedModifier) =>
        /\ Len(sent[1]) = Cardinality(RunStarts)
        /\ \A k \in 1..Len(sent[1]) :
              /\ sent[1][k].keys = SlotsOf(RunStart(k), RunEnd(k))
              /\ sent[1][k].modifier =
                     BitOr(pressedKeys[RunStart(k)].modifierMask, activeModifierKeys)

\* Modifiers [M1, M2, M1]: three reports.
C14_ThreeRunsRefreshed ==
    /\ Refreshed
    /\ Len(pressedKeys) = 3
    /\ pressedKeys[1].modifierMask = pressedKeys[3].modifierMask
    /\ pressedKeys[1].modifierMask # pressedKeys[2].modifierMask
    /\ Len(sent[1]) = 3

(***************************************************************************)
(* C15: a refresh of the empty list sends exactly one report with six zero *)
(* key slots; its modifier byte is activeModifierKeys (0 when that is 0).  *)
(***************************************************************************)
C15_EmptyListReport ==
    (Refreshed /\ pressedKeys = << >>) =>
        /\ Len(sent[1]) = 1
        /\ sent[1][1].keys = << 0, 0, 0, 0, 0, 0 >>
        /\ sent[1][1].modifier = activeModifierKeys

\* The empty list was refreshed while a modifier-only key was held.
C15_ModifierOnlyRefreshed ==
    /\ Refreshed
    /\ pressedKeys = << >>
    /\ activeModifierKeys # 0
    /\ sent[1] = << Report(NoKeys, activeModifierKeys) >>

(***************************************************************************)
(* C16: the reports of one refresh keep the press order and merge no       *)
(* modifiers: their key codes, report after report, are the list's key     *)
(* codes in insertion order, and each entry's key code is in a report      *)
(* whose modifier byte is that entry's modifierMask | activeModifierKeys.  *)
(***************************************************************************)
C16_OrderKeptModifiersApart ==
    Refreshed =>
        /\ CodesBefore(sent[1], Len(sent[1]) + 1) = Len(pressedKeys)
        /\ \A k \in 1..Len(sent[1]) :
              /\ \A i \in 1..CodeCount(sent[1][k]) :
                    /\ sent[1][k].keys[i] =
                           pressedKeys[CodesBefore(sent[1], k) + i].keyCode
                    /\ sent[1][k].modifier =
                           BitOr(pressedKeys[CodesBefore(sent[1], k) + i].modifierMask,
                                 activeModifierKeys)
              /\ \A j \in (CodeCount(sent[1][k]) + 1)..MAX_SIMULTANEOUS_KEYS :
                    sent[1][k].keys[j] = 0

\* A full list holding one key code under two modifiers was refreshed.
C16_SameCodeTwoModifiers ==
    /\ Refreshed
    /\ Len(pressedKeys) = MAX_SIMULTANEOUS_KEYS
    /\ \E i, j \in 1..Len(pressedKeys) :
          /\ i < j
          /\ pressedKeys[i].keyCode = pressedKeys[j].keyCode
          /\ pressedKeys[i].modifierMask # pressedKeys[j].modifierMask
    /\ Len(sent[1]) >= 2

(***************************************************************************)
(* Vocabulary of the list properties: the last step called addPressedKey   *)
(* or removePressedKey (or one after the other) with the pair CalledPair   *)
(* on the list before.pressedKeys.                                         *)
(***************************************************************************)
CalledPair == PressedKey(ev.note, ev.velocity)

ListBefore == before.pressedKeys

\* The list without its entry i.
Without(list, i) ==
    [j \in 1..(Len(list) - 1) |-> IF j < i THEN list[j] ELSE list[j + 1]]

\* The last step was an add that found the list full and the pair absent.
Dropped ==
    /\ ev.kind = "add"
    /\ Len(ListBefore) = MAX_SIMULTANEOUS_KEYS
    /\ CalledPair \notin Range(ListBefore)

(***************************************************************************)
(* C17: the pressed-key list never holds one (keyCode, modifierMask) pair  *)
(* twice, and the add of a pair that is in the list changes neither its    *)
(* length nor its order.                                                   *)
(***************************************************************************)
C17_PairsUnique ==
    /\ \A i, j \in 1..Len(pressedKeys) : i # j => pressedKeys[i] # pressedKeys[j]
    /\ (ev.kind = "add" /\ CalledPair \in Range(ListBefore))
          => pressedKeys = ListBefore

\* A pair in the middle of the list was added again.
C17_PresentPairAddedAgain ==
    /\ ev.kind = "add"
    /\ Len(ListBefore) >= 3
    /\ \E i \in 2..(Len(ListBefore) - 1) : ListBefore[i] = CalledPair
    /\ pressedKeys = ListBefore

(***************************************************************************)
(* C18: for every list and every pair p, the add of p followed by the      *)
(* remove of p gives back the list as it was, order included.              *)
(***************************************************************************)
C18_AddRemoveRestores ==
    ev.kind = "addremove" => pressedKeys = ListBefore

\* C18 for a pair p that is not in the list: add then remove restores the
\* list, whether the add found room or not.  (For a pair already in the
\* list the add changes nothing and the remove deletes that entry.)
C18_AddRemoveOfAbsentRestores ==
    /\ (ev.kind = "addremove" /\ CalledPair \notin Range(ListBefore))
          => pressedKeys = ListBefore
    /\ (ev.kind = "addremove" /\ CalledPair \in Range(ListBefore))
          => /\ Len(pressedKeys) = Len(ListBefore) - 1
             /\ CalledPair \notin Range(pressedKeys)

\* An absent pair was added to a list of several entries and removed again.
C18_AbsentPairAddedRemoved ==
    /\ ev.kind = "addremove"
    /\ CalledPair \notin Range(ListBefore)
    /\ Len(ListBefore) >= 2
    /\ Len(ListBefore) < MAX_SIMULTANEOUS_KEYS
    /\ pressedKeys = ListBefore

(***************************************************************************)
(* C19: the remove of p deletes exactly the entry equal to p and keeps the *)
(* other entries in their order; when no entry equals p, an entry with the *)
(* same keyCode and another modifierMask included, the list is unchanged.  *)
(***************************************************************************)
C19_RemoveExactPair ==
    ev.kind = "remove" =>
        IF CalledPair \in Range(ListBefore)
        THEN \E i \in 1..Len(ListBefore) :
                 /\ ListBefore[i] = CalledPair
                 /\ pressedKeys = Without(ListBefore, i)
        ELSE pressedKeys = ListBefore

\* A pair was removed from the middle of a list that also holds its key
\* code under another modifier.
C19_RemovedFromMiddle ==
    /\ ev.kind = "remove"
    /\ Len(ListBefore) >= 3
    /\ \E i \in 2..(Len(ListBefore) - 1) : ListBefore[i] = CalledPair
    /\ \E j \in 1..Len(ListBefore) :
          /\ ListBefore[j].keyCode = CalledPair.keyCode
          /\ ListBefore[j].modifierMask # CalledPair.modifierMask
    /\ Len(pressedKeys) = Len(ListBefore) - 1

(***************************************************************************)
(* C20: the add of a new pair to a list of six entries leaves the six      *)
(* entries and their order as they were, and the release of an older entry *)
(* afterwards does not bring the dropped pair into the list.               *)
(***************************************************************************)
C20_FirstSixWin ==
    [][ /\ (/\ ev'.kind = "add"
            /\ Len(pressedKeys) = MAX_SIMULTANEOUS_KEYS
            /\ PressedKey(ev'.note, ev'.velocity) \notin Range(pressedKeys))
              => pressedKeys' = pressedKeys
        /\ (/\ Dropped
            /\ ev'.kind = "remove"
            /\ PressedKey(ev'.note, ev'.velocity) \in Range(pressedKeys))
              => /\ CalledPair \notin Range(pressedKeys')
                 /\ Range(pressedKeys') \subseteq Range(ListBefore)
                 /\ Len(pressedKeys') = MAX_SIMULTANEOUS_KEYS - 1
      ]_vars

\* A seventh pair was added to a full list and dropped.
C20_SeventhPairDropped ==
    /\ Dropped
    /\ pressedKeys = ListBefore
    /\ Len(pressedKeys) = MAX_SIMULTANEOUS_KEYS

(***************************************************************************)
(* C21: after every step, activeModifierKeys is the bitwise OR of the      *)
(* modifier masks of the modifier-only notes of the active profile that    *)
(* are held down, also when two held notes are mapped to one modifier bit. *)
(***************************************************************************)
C21_MaskOfHeld ==
    LET table == profiles[currentProfileIndex].noteToKey
        bit(i) == IF \E n \in modifierNotesHeld : Bit(noteEntry(table, n).modifierMask, i) = 1
                  THEN 2 ^ i
                  ELSE 0
    IN  bit(0) + bit(1) + bit(2) + bit(3) + bit(4) + bit(5) + bit(6) + bit(7)

C21_MaskIsOrOfHeldNotes == phase = "run" => activeModifierKeys = C21_MaskOfHeld

(***************************************************************************)
(* C22: for every modifier token MOD and every one-character base key KEY  *)
(* the key name "KEY+MOD" resolves, and to the same keyCode and            *)
(* modifierMask as "MOD+KEY": the key code of KEY with the mask of MOD.    *)
(***************************************************************************)
C22_EitherOrder ==
    phase = "run" =>
        LET table == profiles[0].noteToKey
        IN  /\ noteEntry(table, 60).keyCode = noteEntry(table, 1).keyCode
            /\ noteEntry(table, 60).keyCode # 0
            /\ noteEntry(table, 60).modifierMask # 0
            /\ noteEntry(table, 61) = noteEntry(table, 60)

(***************************************************************************)
(* C23: a KEY=VALUE mapping line changes the note table only when its left *)
(* side is an integer in 0..127 and its key name resolves; a line whose    *)
(* left side is not a number or is out of range, or whose key name does    *)
(* not resolve, leaves every entry, that of note 0 included, as it was.    *)
(***************************************************************************)
\* The left sides of LineLefts that are an integer in 0..127.
C23_NoteTexts == { "0", "1", "60", "127" }

\* The table the lines before the last one give.
C23_TableBefore ==
    SetEntry(SetEntry(EmptyTable, 0, KeyMapping(KEY_A + 25, 0)), 60, KeyMapping(KEY_A + 1, 0))

C23_Resolves ==
    parseKeyMapping(splitKeyName(ev.velocity).modifierStr,
                    splitKeyName(ev.velocity).baseKey).ok

C23_BadLineDropped ==
    (ev.kind = "line" /\ ~(ev.note \in C23_NoteTexts /\ C23_Resolves))
        => profiles[0].noteToKey = C23_TableBefore

(***************************************************************************)
(* C24: a run of handleFastPress at millis() = now goes through the timers *)
(* from the last to the first and, for exactly those whose releaseTime is  *)
(* at most now, removes the key, refreshes once and deletes the timer;     *)
(* afterwards no timer with releaseTime at most now is left and the other  *)
(* timers are in the order they were in.                                   *)
(***************************************************************************)
\* a <= b for unsigned long values written in two's complement: the
\* negative integers stand for the values from 2^31 upwards.
C24_AtMost(a, b) == IF (a < 0) <=> (b < 0) THEN a <= b ELSE a >= 0

C24_Due(timer) == C24_AtMost(timer.releaseTime, clock)

C24_DueIndices == {i \in 1..Len(fastPressTimers) : C24_Due(fastPressTimers[i])}

\* The k due timers met first when going from the last timer to the first.
C24_MetFirst(k) ==
    {i \in C24_DueIndices : Cardinality({j \in C24_DueIndices : j >= i}) <= k}

\* The pressed keys once the keys of the timers in `indices` are removed.
C24_KeysWithout(indices) ==
    LET Kept(key) == \A i \in indices :
                        key # PressedKey(fastPressTimers[i].keyCode,
                                         fastPressTimers[i].modifierMask)
    IN  SelectSeq(pressedKeys, Kept)

C24_TickReleasesDue ==
    [][ (phase = "run" /\ pc = 0 /\ pc' = 1 /\ fastPressGate) =>
           LET NotDue(timer) == ~C24_Due(timer)
           IN  /\ fastPressTimers' = SelectSeq(fastPressTimers, NotDue)
               /\ \A i \in 1..Len(fastPressTimers') : ~C24_Due(fastPressTimers'[i])
               /\ pressedKeys' = C24_KeysWithout(C24_DueIndices)
               /\ Len(sent') = Cardinality(C24_DueIndices)
               /\ \A k \in 1..Len(sent') :
                     sent'[k] = updateKeyboardState(C24_KeysWithout(C24_MetFirst(k)),
                                                    activeModifierKeys)
      ]_vars

\* A run released two timers of different keys and left two timers pending.
C24_TwoReleasedTwoLeft ==
    /\ ev.kind = "tick"
    /\ Len(sent) = 2
    /\ Len(fastPressTimers) = 2
    /\ Len(before.fastPressTimers) = 4
    /\ before.fastPressTimers[1].keyCode # before.fastPressTimers[2].keyCode
    /\ fastPressTimers = SubSeq(before.fastPressTimers, 3, 4)
    /\ fastPressTimers[1].keyCode # fastPressTimers[2].keyCode
    /\ Len(before.pressedKeys) = 2
    /\ sent[1] # sent[2]

(***************************************************************************)
(* C25: a timed fast-press note-on that finds six timers pending still     *)
(* adds its key and refreshes but leaves the timer list as it is, and the  *)
(* key then stays in the pressed-key set until a profile switch or until a *)
(* later note-on of the same pair gives it a timer: no other event removes *)
(* it.                                                                     *)
(***************************************************************************)
\* A device delivers a note-on, not the profile-switch note, of a regular
\* key to a timed fast-press profile that has six timers pending.
C25_PressAtCapacity ==
    /\ phase = "run"
    /\ pc # 0
    /\ pc' # pc
    /\ ev'.kind = "NoteOn"
    /\ ev'.velocity > 0
    /\ ~isSwitchNote(ev'.kind, ev'.note, ev'.velocity)
    /\ profiles[currentProfileIndex].fastPressMode
    /\ profiles[currentProfileIndex].pressDurationMs > 0
    /\ noteEntry(profiles[currentProfileIndex].noteToKey, ev'.note).keyCode # 0
    /\ Len(fastPressTimers) = MAX_SIMULTANEOUS_KEYS

C25_PairPressed ==
    LET mapping == noteEntry(profiles[currentProfileIndex].noteToKey, ev'.note)
    IN  PressedKey(mapping.keyCode, mapping.modifierMask)

\* The last step was such a note-on, and it put a new pair in the set.
C25_JustAdded ==
    /\ ev.kind = "NoteOn"
    /\ ev.velocity > 0
    /\ Len(before.fastPressTimers) = MAX_SIMULTANEOUS_KEYS
    /\ fastPressTimers = before.fastPressTimers
    /\ Len(pressedKeys) = Len(before.pressedKeys) + 1

C25_PairAdded == pressedKeys[Len(pressedKeys)]

C25_TimersOf(pair) ==
    {i \in 1..Len(fastPressTimers) :
        PressedKey(fastPressTimers[i].keyCode, fastPressTimers[i].modifierMask) = pair}

C25_SwitchStep == sent' # << >> /\ fastPressTimers' = << >> /\ pc # 0

\* C25 as stated, for the step after the note-on: unless that step is a
\* profile switch or a note-on of the same pair, the pair is still held.
C25_HeldUntilSwitchOrNoteOn ==
    [][ /\ C25_PressAtCapacity =>
              /\ C25_PairPressed \in Range(pressedKeys')
              /\ Len(sent') = 1
              /\ fastPressTimers' = fastPressTimers
        /\ (/\ C25_JustAdded
            /\ ~C25_SwitchStep
            /\ ~(ev'.kind = "NoteOn" /\ pc' # pc /\ pc # 0))
              => C25_PairAdded \in Range(pressedKeys')
      ]_vars

\* C25 as the code has it.  The note-on at six pending timers leaves the
\* timer list as it is and refreshes once; its pair is appended to the set
\* when it is not in it and the set has room, and the set is unchanged
\* otherwise.  A pair leaves the set only by a profile switch or by a run of
\* handleFastPress that finds a timer of that pair due, whether that timer
\* is from a later note-on of the pair or was pending from an earlier one:
\* a pair that has no timer stays through every other step.
C25_HeldUntilSwitchOrOwnTimer ==
    [][ /\ C25_PressAtCapacity =>
              /\ fastPressTimers' = fastPressTimers
              /\ Len(sent') = 1
              /\ pressedKeys' =
                    IF C25_PairPressed \in Range(pressedKeys)
                          \/ Len(pressedKeys) = MAX_SIMULTANEOUS_KEYS
                    THEN pressedKeys
                    ELSE Append(pressedKeys, C25_PairPressed)
        /\ (phase = "run" /\ profiles[currentProfileIndex].fastPressMode
                          /\ profiles[currentProfileIndex].pressDurationMs > 0) =>
              \A pair \in Range(pressedKeys) \ Range(pressedKeys') :
                  \/ C25_SwitchStep
                  \/ /\ pc = 0
                     /\ pc' = 1
                     /\ \E i \in C25_TimersOf(pair) : C24_Due(fastPressTimers[i])
      ]_vars

\* The note-on at six pending timers added a pair that has no timer.
C25_AddedWithoutTimer ==
    /\ C25_JustAdded
    /\ C25_TimersOf(C25_PairAdded) = {}

(***************************************************************************)
(* C26: one call of loop() reads device 1, device 2, device 3, device 4,   *)
(* at most one message each and each message processed to its end before   *)
(* the next device is read, and then runs the fast-press step, after the   *)
(* devices of that call.                                                   *)
(***************************************************************************)
\* A step of loop(): the fast-press step or the read of one device.
C26_LoopStep == phase = "run" /\ pc' # pc

\* The devices are read in the order 1, 2, 3, 4, one message at most per
\* read, and what a read sends has reached the keyboard when it ends.
C26_DevicesInOrder ==
    (C26_LoopStep /\ pc \in 1..NUM_MIDI_DEVICES) =>
        /\ ev'.kind # "tick"
        /\ pc' = IF pc = NUM_MIDI_DEVICES THEN 0 ELSE pc + 1
        /\ Len(sent') <= 2
        /\ sent' # << >> => hostReport' = << Flatten(sent')[Len(Flatten(sent'))] >>

\* C26 as stated: the call of loop() that follows setup() begins with the
\* read of device 1, and the fast-press step comes when device 4 is read.
C26_DevicesThenFastPress ==
    [][ /\ C26_DevicesInOrder
        /\ (C26_LoopStep /\ ev.kind = "setup") => ev'.kind # "tick"
      ]_vars

\* C26 as the code has it: every call of loop(), the first one included,
\* runs the fast-press step first and then reads devices 1, 2, 3, 4; the
\* fast-press step comes before the devices of its call and after those
\* of the call before.
C26_FastPressThenDevices ==
    [][ /\ C26_DevicesInOrder
        /\ (C26_LoopStep /\ ev.kind = "setup") => (pc = 0 /\ ev'.kind = "tick")
        /\ (C26_LoopStep /\ pc = 0) => (ev'.kind = "tick" /\ pc' = 1)
        /\ (C26_LoopStep /\ ev'.kind = "tick") => pc = 0
      ]_vars

\* The fast-press step of a call released a key before device 1 was read.
C26_ReleasedBeforeDevices ==
    /\ ev.kind = "tick"
    /\ pc = 1
    /\ Len(sent) = 1
    /\ Len(before.pressedKeys) = 1
    /\ pressedKeys = << >>

(***************************************************************************)
(* C27: whenever a timer is pending, the active profile is in fast-press   *)
(* mode with a press duration above 0, so that the test loop() makes       *)
(* before it calls handleFastPress (profile valid and in fast-press mode)  *)
(* is true whenever there is a timer to look at.                           *)
(***************************************************************************)
C27_TimersOnlyInTimedProfile ==
    fastPressTimers # << >> =>
        /\ profiles[currentProfileIndex].fastPressMode
        /\ profiles[currentProfileIndex].pressDurationMs > 0
        /\ profiles[currentProfileIndex].isValid
        /\ fastPressGate

\* Timers are pending in a profile that was reached by switching, and
\* loop() has just taken its fast-press step.
C27_TimerPendingAfterSwitch ==
    /\ currentProfileIndex # 0
    /\ ev.kind = "tick"
    /\ Len(fastPressTimers) >= 2
    /\ pressedKeys # << >>

(***************************************************************************)
(* C28: after every step of loop(), once a report has been sent, the       *)
(* report sent last is the last report a refresh makes for the pressed-key *)
(* set and the modifier mask as they are now; with an empty set and mask 0 *)
(* the report sent last is the all-zero report.                            *)
(***************************************************************************)
C28_LastOfRefresh ==
    LET reports == updateKeyboardState(pressedKeys, activeModifierKeys)
    IN  reports[Len(reports)]

C28_HostFollowsState ==
    (phase = "run" /\ hostReport # << >>) =>
        /\ hostReport = << C28_LastOfRefresh >>
        /\ (pressedKeys = << >> /\ activeModifierKeys = 0)
              => hostReport = << Report(NoKeys, 0) >>
        /\ \A i \in 1..MAX_SIMULTANEOUS_KEYS :
              hostReport[1].keys[i] # 0
                 => \E j \in 1..Len(pressedKeys) : pressedKeys[j].keyCode = hostReport[1].keys[i]

\* Two keys with different modifiers are held with a modifier-only key: the
\* step sent two reports and the keyboard holds the second.
C28_SecondBatchHeld ==
    /\ Len(pressedKeys) = 2
    /\ pressedKeys[1].modifierMask # pressedKeys[2].modifierMask
    /\ activeModifierKeys # 0
    /\ Len(Reports) = 2
    /\ hostReport = << Reports[2] >>
    /\ hostReport[1].keys[1] = pressedKeys[2].keyCode

(***************************************************************************)
(* C29: in every reachable state every entry of the pressed-key set and    *)
(* every pending timer has a keyCode other than 0: a note mapped to a      *)
(* modifier alone and a note without a mapping never enter either of       *)
(* them, so a refresh has no entry to skip for a keyCode of 0.             *)
(***************************************************************************)
C29_NoZeroKeyCode ==
    /\ \A i \in 1..Len(pressedKeys) : pressedKeys[i].keyCode # 0
    /\ \A i \in 1..Len(fastPressTimers) : fastPressTimers[i].keyCode # 0
    /\ (phase = "run" /\ ev.kind = "NoteOn" /\ ev.velocity > 0
           /\ noteEntry(profiles[currentProfileIndex].noteToKey, ev.note).keyCode = 0
           /\ currentProfileIndex = before.currentProfileIndex)
          => /\ pressedKeys = before.pressedKeys
             /\ fastPressTimers = before.fastPressTimers

\* A note-on of a modifier-only note arrived in the timed profile while a
\* key was held and its timer pending.
C29_ModifierNoteWhileTimed ==
    /\ ev.kind = "NoteOn"
    /\ ev.velocity > 0
    /\ noteEntry(profiles[currentProfileIndex].noteToKey, ev.note).keyCode = 0
    /\ noteEntry(profiles[currentProfileIndex].noteToKey, ev.note).modifierMask # 0
    /\ activeModifierKeys # 0
    /\ before.activeModifierKeys = 0
    /\ pressedKeys # << >>
    /\ fastPressTimers # << >>

(***************************************************************************)
(* C30: a timer made at millis() = t with a duration d is not released by  *)
(* a run of handleFastPress before d milliseconds have passed since t,     *)
(* also when t + d is past 2^32 - 1 and the stored releaseTime has         *)
(* wrapped.  Times before the wrap of millis() are the negative numbers    *)
(* here and the stored t + d is the number t + d itself, so that           *)
(* clock < releaseTime says that fewer than d milliseconds have passed.    *)
(***************************************************************************)
C30_NotReleasedEarly ==
    [][ (phase = "run" /\ pc = 0 /\ pc' = 1) =>
           \A i \in 1..Len(fastPressTimers) :
               clock < fastPressTimers[i].releaseTime
                  => fastPressTimers[i] \in Range(fastPressTimers')
      ]_vars

(***************************************************************************)
(* C31: in a timed fast-press profile a second note-on of a pair that is   *)
(* still in the pressed-key set appends a second timer and leaves the set  *)
(* as it is; the pair is removed by the first run of handleFastPress that  *)
(* finds the earliest of its timers expired, so the later press does not   *)
(* extend the hold; and every later expiry of a timer of that pair deletes *)
(* the timer and refreshes once while the set stays as it is.              *)
(***************************************************************************)
\* A device delivers a note-on, not the profile-switch note, of a regular
\* key to a timed fast-press profile while the pair of that key is held.
C31_PressWhileHeld ==
    /\ phase = "run"
    /\ pc # 0
    /\ pc' # pc
    /\ ev'.kind = "NoteOn"
    /\ ev'.velocity > 0
    /\ ~isSwitchNote(ev'.kind, ev'.note, ev'.velocity)
    /\ profiles[currentProfileIndex].fastPressMode
    /\ profiles[currentProfileIndex].pressDurationMs > 0
    /\ noteEntry(profiles[currentProfileIndex].noteToKey, ev'.note).keyCode # 0
    /\ C25_PairPressed \in Range(pressedKeys)

C31_NewTimer ==
    Timer(C25_PairPressed.keyCode, C25_PairPressed.modifierMask,
          ULongAdd(clock, profiles[currentProfileIndex].pressDurationMs))

\* The timer of `pair` whose releaseTime is the least (as unsigned long).
C31_Earliest(pair) ==
    fastPressTimers[CHOOSE i \in C25_TimersOf(pair) :
                       \A j \in C25_TimersOf(pair) :
                           C24_AtMost(fastPressTimers[i].releaseTime,
                                      fastPressTimers[j].releaseTime)]

C31_HeldWithTimers ==
    {pair \in Range(pressedKeys) : C25_TimersOf(pair) # {}}

\* The due timers of pairs that are not in the pressed-key set.
C31_LateIndices ==
    {i \in C24_DueIndices :
        PressedKey(fastPressTimers[i].keyCode, fastPressTimers[i].modifierMask)
            \notin Range(pressedKeys)}

\* What a run of handleFastPress does to a pair with several timers.
C31_Tick ==
    (phase = "run" /\ pc = 0 /\ pc' = 1 /\ fastPressGate) =>
        LET NotDue(timer) == ~C24_Due(timer)
        IN  /\ \A pair \in C31_HeldWithTimers :
                   pair \in Range(pressedKeys') <=> ~C24_Due(C31_Earliest(pair))
            /\ fastPressTimers' = SelectSeq(fastPressTimers, NotDue)
            /\ Len(sent') = Cardinality(C24_DueIndices)
            /\ C24_DueIndices = C31_LateIndices =>
                   /\ pressedKeys' = pressedKeys
                   /\ \A k \in 1..Len(sent') :
                          sent'[k] = updateKeyboardState(pressedKeys, activeModifierKeys)

\* C31 as stated: the note-on of a held pair always stores one more timer.
C31_SecondTimerAlways ==
    [][ /\ C31_PressWhileHeld =>
              /\ pressedKeys' = pressedKeys
              /\ fastPressTimers' = Append(fastPressTimers, C31_NewTimer)
        /\ C31_Tick
      ]_vars

\* C31 as the code has it: the note-on of a held pair stores one more timer
\* while fewer than six timers are pending and none when six are; in both
\* cases the set stays as it is and there is one refresh.
C31_SecondTimerWhileRoom ==
    [][ /\ C31_PressWhileHeld =>
              /\ pressedKeys' = pressedKeys
              /\ Len(sent') = 1
              /\ fastPressTimers' =
                    IF Len(fastPressTimers) < MAX_SIMULTANEOUS_KEYS
                    THEN Append(fastPressTimers, C31_NewTimer)
                    ELSE fastPressTimers
        /\ C31_Tick
      ]_vars

\* A run found the earlier of two timers of a held pair due and the later
\* one not: the pair is gone and the later timer is what is left.
C31_ReleasedAtEarliest ==
    /\ ev.kind = "tick"
    /\ Len(before.fastPressTimers) = 2
    /\ before.fastPressTimers[1].keyCode = before.fastPressTimers[2].keyCode
    /\ before.fastPressTimers[1].releaseTime # before.fastPressTimers[2].releaseTime
    /\ PressedKey(before.fastPressTimers[1].keyCode,
                  before.fastPressTimers[1].modifierMask) \in Range(before.pressedKeys)
    /\ fastPressTimers = << before.fastPressTimers[2] >>
    /\ PressedKey(before.fastPressTimers[1].keyCode,
                  before.fastPressTimers[1].modifierMask) \notin Range(pressedKeys)
    /\ Len(sent) = 1

====
